---------------------------- MODULE Spec2Model ----------------------------
(***************************************************************************)
(* State-machine model of the MLInterviewPro client-side authentication    *)
(* core: the auth-state broadcaster of js/auth.js (currentUser,            *)
(* authStateListeners, handleAuthStateChange, onAuthStateChanged, the      *)
(* session cache in localStorage) and the content-gating controller of the *)
(* auth-ui module (requireAuth, protectContent, createContentGate,         *)
(* removeContentGate, updateUIForAuthState, initializeAuthUI), and the     *)
(* progress reconciliation of js/database.js that a sign-in starts         *)
(* (createOrUpdateUserProfile, updateProblemProgress,                      *)
(* syncLocalStorageToFirestore, syncFirestoreToLocalStorage).              *)
(*                                                                         *)
(* JavaScript values are modelled as follows.  null is the string "null".  *)
(* A Firebase user object is identified by its uid; its fields are given   *)
(* by the operators Email, DisplayName, PhotoURL, EmailVerified and        *)
(* ProviderData.  A callback (a function identity) is a record             *)
(* [kind, id, on]; a DOM node is a record [kind, id, kids].                *)
(***************************************************************************)
EXTENDS Integers, Sequences, FiniteSets, TLC

\* ------------------------------------------------------------------ bounds

\* Number of identity notifications the auth provider delivers in a run.
MaxNotify == 3

\* Number of onAuthStateChanged registrations made by page code in a run.
MaxRegs == 2

\* Number of createContentGate calls in a run.
MaxGates == 2

\* Number of protectContent calls page code makes on the element in a run.
MaxProtects == 2

\* Number of progress writes other devices of the same accounts make in a run.
MaxRemoteEdits == 1

\* Number of status changes the user makes in the catalog in a run.
MaxLocalEdits == 2

\* Number of promise chains of handleAuthStateChange in flight at a time.
MaxChains == 2

\* Number of seconds that pass while the time tracker is on.
MaxSeconds == 3

\* Number of updateProblemProgress and recordProblemView calls page code
\* makes.
MaxCalls == 3

\* Number of such calls suspended at an await at a time.
MaxPending == 2

\* ------------------------------------------------------------------ values

Null == "null"

\* The identities the auth provider can deliver.
Users == {"u1", "u2"}

Identities == Users \cup {Null}

\* user.email / displayName / photoURL / emailVerified / providerData of the
\* two modelled accounts.  u2 is an account without display name, photo and
\* provider data (providerData is an empty array).
Email(u) == IF u = "u1" THEN "ann@example.org" ELSE "bob@example.org"

DisplayName(u) == IF u = "u1" THEN "Ann" ELSE Null

PhotoURL(u) == IF u = "u1" THEN "photo1" ELSE Null

EmailVerified(u) == u = "u1"

ProviderData(u) == IF u = "u1" THEN <<"google.com">> ELSE <<>>

\* JavaScript truthiness of a user value (null is falsy, an object truthy).
Truthy(u) == u # Null

\* The only container of the page that page code gates.
Containers == {"premium"}

\* The callbacks page code registers with onAuthStateChanged:
\*   plain  - returns normally
\*   raises - throws from inside the callback
\*   once   - a one-shot subscriber: it calls its own unsubscribe function
\*            when it is notified
SubscriberKinds == {"plain", "raises", "once"}

\* A function identity.  on is the container a gate closure has captured.
Callback(kind, id, on) == [kind |-> kind, id |-> id, on |-> on]

SubscriberCallbacks == {Callback(k, 0, "") : k \in SubscriberKinds}

\* updateUIForAuthState, as registered by initializeAuthUI.
UiCallback == Callback("ui", 0, "")

\* The closure the k-th createContentGate call registers for container c.
GateCallback(k, c) == Callback("gate", k, c)

\* ------------------------------------------------------- session cache

\* sessionData of storeUserSession: the projection of a user.
ProviderId(u) == IF Len(ProviderData(u)) >= 1 THEN ProviderData(u)[1] ELSE "unknown"

SessionData(u, t) ==
    [uid |-> u, email |-> Email(u), displayName |-> DisplayName(u),
     photoURL |-> PhotoURL(u), emailVerified |-> EmailVerified(u),
     providerId |-> ProviderId(u), lastLoginAt |-> t]

NoData ==
    [uid |-> Null, email |-> Null, displayName |-> Null, photoURL |-> Null,
     emailVerified |-> FALSE, providerId |-> Null, lastLoginAt |-> 0]

\* The localStorage item 'mlinterviewpro_user_session': missing, a JSON text
\* (the serialisation of a sessionData object), or a text that is no JSON.
NoEntry == [kind |-> "none", data |-> NoData]

CorruptEntry == [kind |-> "corrupt", data |-> NoData]

\* JSON.stringify(sessionData): every field of sessionData is a string, a
\* boolean or null, so the text determines the object.
JsonStringify(d) == [kind |-> "json", data |-> d]

\* JSON.parse(text): raises on a text that is no JSON.
JsonParseRaises(e) == e.kind = "corrupt"

JsonParse(e) == e.data


\* ------------------------------------------------------------------- state

VARIABLES
    authLoaded,          \* window.MLInterviewAuth is defined (auth.js has run)
    currentUser,         \* auth.js: let currentUser
    authStateListeners,  \* auth.js: const authStateListeners; each element is
                         \* [cb, sub]: the callback, and (history only) the
                         \* registration that pushed it
    session,             \* localStorage['mlinterviewpro_user_session']
    storageOK,           \* localStorage accepts calls (FALSE: every call raises)
    now,                 \* the clock new Date() reads
    handles,             \* one record per registration by page code: the callback,
                         \* whether its unsubscribe function was returned, and
                         \* whether page code has called that function
    lastDelivered,       \* history: the last value passed to handleAuthStateChange
    authState,           \* auth-ui: let authState
    bodyClass,           \* auth-ui: the auth classes of document.body
    uiPhase,             \* auth-ui: "start", "waitLoad" (load listener pending), "ready"
    dom,                 \* the child nodes of each gated container
    authGate,            \* container._authGate: 0 (not set) or the gate's number
    gateCount,           \* createContentGate calls that built a gate so far
    protectedRedirect,   \* AUTH_UI_CONFIG.urls.protectedRedirect
    location,            \* window.location.href; the page is left once it changes
    modalShown,          \* the login modal is injected and shown
    twin,                \* the identity and the cached session of a second run that
                         \* is fed the same inputs but started from another cache
    element,             \* the page element page code protects: its onclick
                         \* handler, its click listener and its attributes
    dbLoaded,            \* window.MLInterviewDB is defined (database.js has run)
    db,                  \* database.js: let db is set (initializeFirestore succeeded)
    localProgress,       \* the localStorage items 'progress_' + problem id
    remoteProgress,      \* Firestore users/{uid}/progress/{problemId}: the status
    stats,               \* Firestore users/{uid}: the document exists, and its stats
    updatedAt,           \* Firestore users/{uid}/progress/{problemId}:
                         \* lastUpdatedAt (0: no document)
    chains,              \* the promise chains of handleAuthStateChange in flight
    synced,              \* history: per account, the records that were the same
                         \* in both ledgers when this device last reconciled it
    remoteEdits,         \* history: number of writes by other devices so far
    localEdits,          \* history: number of status changes by the user so far
    pageCalls,           \* the updateProblemProgress and recordProblemView calls
                         \* of page code that are suspended at an await
    issued,              \* history: number of such calls made so far
    cacheWrite,          \* history: how the last storeUserSession or
                         \* clearUserSession call of this page ended
    authError,           \* the text #auth-error-message displays ("": hidden)
    loadingButtons,      \* the sign-in buttons that are disabled and 'loading'
    attempts,            \* the wrapped sign-in calls awaiting the provider
    tracker,             \* database.js: activeTimeTracker, currentProblemId,
                         \* sessionStartTime and the two event listeners
    spent,               \* Firestore: timeSpent of the progress records and
                         \* stats.totalTimeSpent of the user documents
    lastOp               \* history: the operation that produced this state

vars ==
    <<authLoaded, currentUser, authStateListeners, session, storageOK, now,
      handles, lastDelivered, authState, bodyClass, uiPhase, dom, authGate, gateCount,
      protectedRedirect, location, modalShown, twin, element, dbLoaded, db,
      localProgress, remoteProgress, stats, updatedAt, chains, synced, remoteEdits,
      localEdits, pageCalls, issued, cacheWrite, authError, loadingButtons,
      attempts, tracker, spent, lastOp>>

\* The state of database.js, of the progress ledgers and of the sync chains.
dbVars ==
    <<dbLoaded, db, localProgress, remoteProgress, stats, updatedAt, chains, synced,
      remoteEdits, localEdits, pageCalls, issued>>

\* The error text and the buttons of the login modal, and the sign-in calls
\* in flight.
signVars == <<authError, loadingButtons, attempts>>

\* The time tracker of database.js and the time it has saved.
trackVars == <<tracker, spent>>

\* --------------------------------------------------- session cache (auth.js)

\* storeUserSession: the entry after the call.  ok is FALSE when
\* localStorage.setItem raises; the catch block logs and the entry stays.
StoreUserSession(entry, u, ok, t) ==
    IF ok THEN JsonStringify(SessionData(u, t)) ELSE entry

\* clearUserSession: the entry after the call.
ClearUserSession(entry, ok) == IF ok THEN NoEntry ELSE entry

\* How the cache write of handleAuthStateChange(u) ends: storeUserSession
\* for a user, clearUserSession for null; setItem or removeItem raising ends
\* in the catch block.
CacheWriteOutcome(u, ok) ==
    IF Truthy(u) THEN (IF ok THEN "stored" ELSE "storeFailed")
    ELSE (IF ok THEN "cleared" ELSE "clearFailed")

\* Variant of GetStoredUserSession without the try/catch around getItem: it
\* hands out the entry even when localStorage raises.
GetStoredUserSessionNoCatch(entry, ok) ==
    IF entry.kind = "none" THEN NoData ELSE JsonParse(entry)

\* getStoredUserSession: the stored session object, or null (NoData stands
\* for null).  getItem raising and JSON.parse raising both end in the catch
\* block.
GetStoredUserSession(entry, ok) ==
    IF ~ok THEN NoData
    ELSE IF entry.kind = "none" THEN NoData
    ELSE IF JsonParseRaises(entry) THEN NoData
    ELSE JsonParse(entry)

\* ------------------------------------------------------- DOM of a container

Node(kind, id, kids) == [kind |-> kind, id |-> id, kids |-> kids]

Content == Node("content", 0, <<>>)

Wrapper(k, kids) == Node("wrapper", k, kids)

Overlay(k) == Node("overlay", k, <<>>)

\* parent.removeChild(node) for a node identified by kind and number.
RemoveChild(children, kind, k) ==
    SelectSeq(children, LAMBDA n : ~(n.kind = kind /\ n.id = k))

\* The children of wrapper k among the children of a container.
WrapperKids(children, k) ==
    LET ws == SelectSeq(children, LAMBDA n : n.kind = "wrapper" /\ n.id = k)
    IN  IF Len(ws) = 0 THEN <<>> ELSE ws[1].kids

RECURSIVE HasNode(_, _, _)
\* Whether the forest holds the node of the given kind and number.
HasNode(children, kind, k) ==
    /\ Len(children) > 0
    /\ \/ children[1].kind = kind /\ children[1].id = k
       \/ HasNode(children[1].kids, kind, k)
       \/ HasNode(Tail(children), kind, k)

\* ------------------------------------------ what a callback can read and change

\* The part of the page a listener invocation reads or changes, threaded
\* through the synchronous call chain of one handler.
\*   raised - an exception is propagating
\*   mute   - evaluate the chain as if no callback raised (used for comparison)
\*   trace  - history: the listener invocations of this chain, in order
Page ==
    [listeners |-> authStateListeners, handles |-> handles, cur |-> currentUser,
     sess |-> session, authState |-> authState, bodyClass |-> bodyClass,
     dom |-> dom, authGate |-> authGate, raised |-> FALSE, mute |-> FALSE,
     trace |-> <<>>]

\* Array.prototype.indexOf on authStateListeners: the first position holding
\* the callback, 0 for -1.
IndexOf(listeners, cb) ==
    LET hits == {i \in 1..Len(listeners) : listeners[i].cb = cb}
    IN  IF hits = {} THEN 0 ELSE CHOOSE i \in hits : \A j \in hits : i <= j

\* authStateListeners.splice(index, 1)
Splice(listeners, index) ==
    SubSeq(listeners, 1, index - 1) \o SubSeq(listeners, index + 1, Len(listeners))

\* The unsubscribe function onAuthStateChanged returns for callback cb.
UnsubscribeFn(listeners, cb) ==
    LET index == IndexOf(listeners, cb)
    IN  IF index > 0 THEN Splice(listeners, index) ELSE listeners

\* Variant of UpdateUIForAuthState that leaves the loading class on the body.
UpdateUIForAuthStateKeepsLoading(pg, u) ==
    [pg EXCEPT
        !.authState = [initialized |-> TRUE, loading |-> FALSE, user |-> u],
        !.bodyClass =
            IF Truthy(u)
            THEN (@ \cup {"auth-authenticated"}) \ {"auth-unauthenticated"}
            ELSE (@ \cup {"auth-unauthenticated"}) \ {"auth-authenticated"}]

\* updateUIForAuthState(user), user given by its uid.
UpdateUIForAuthState(pg, u) ==
    [pg EXCEPT
        !.authState = [initialized |-> TRUE, loading |-> FALSE, user |-> u],
        !.bodyClass =
            IF Truthy(u)
            THEN (@ \cup {"auth-authenticated"}) \ {"auth-unauthenticated", "auth-loading"}
            ELSE (@ \cup {"auth-unauthenticated"}) \ {"auth-authenticated", "auth-loading"}]

\* removeContentGate(container)
RemoveContentGate(pg, c) ==
    IF pg.authGate[c] = 0 THEN pg
    ELSE
        LET k == pg.authGate[c]
            noOverlay == RemoveChild(pg.dom[c], "overlay", k)
            moved == noOverlay \o WrapperKids(noOverlay, k)
        IN  [pg EXCEPT !.dom[c] = RemoveChild(moved, "wrapper", k),
                       !.authGate[c] = 0]

\* The closure createContentGate registers: (user) => { if (user &&
\* container._authGate) removeContentGate(container) }
GateListener(pg, c, u) ==
    IF Truthy(u) /\ pg.authGate[c] # 0 THEN RemoveContentGate(pg, c) ELSE pg

\* One call callback(value) of the listener entry e = [cb, sub].  phase is
\* "replay" for the call made by onAuthStateChanged and "fanout" for the call
\* made by handleAuthStateChange.
Invoke(pg, e, u, phase) ==
    LET call == [sub |-> e.sub, cb |-> e.cb, value |-> u, phase |-> phase,
                 seenUser |-> pg.cur, seenSession |-> pg.sess,
                 raisedIn |-> (e.cb.kind = "raises" /\ ~pg.mute)]
        seen == [pg EXCEPT !.trace = Append(@, call)]
    IN  CASE e.cb.kind = "plain" -> seen
          [] e.cb.kind = "raises" -> [seen EXCEPT !.raised = ~pg.mute]
          [] e.cb.kind = "once" ->
                \* calls its unsubscribe function once it holds it
                IF e.sub > 0 /\ seen.handles[e.sub].returned
                THEN [seen EXCEPT !.listeners = UnsubscribeFn(@, e.cb)]
                ELSE seen
          [] e.cb.kind = "gate" -> GateListener(seen, e.cb.on, u)
          [] e.cb.kind = "ui" -> UpdateUIForAuthState(seen, u)

\* Variant of TryListener without the try/catch: the exception of a
\* listener leaves forEach and handleAuthStateChange.
TryListenerNoCatch(pg, e, u) == Invoke(pg, e, u, "fanout")

\* try { listener(user) } catch (error) { console.error(...) }
TryListener(pg, e, u) ==
    [Invoke(pg, e, u, "fanout") EXCEPT !.raised = FALSE]

RECURSIVE ForEachListener(_, _, _, _)
\* authStateListeners.forEach(...) from index i on.  forEach reads the length
\* n once, before the first call, and skips an index that the array no
\* longer has when it gets there.
ForEachListener(pg, u, i, n) ==
    IF i > n \/ pg.raised THEN pg
    ELSE IF i > Len(pg.listeners) THEN ForEachListener(pg, u, i + 1, n)
    ELSE ForEachListener(TryListener(pg, pg.listeners[i], u), u, i + 1, n)

\* The first statements of handleAuthStateChange: currentUser = user, then
\* storeUserSession(user) or clearUserSession().
UpdateIdentity(pg, u, ok, t) ==
    [pg EXCEPT !.cur = u,
               !.sess = IF Truthy(u) THEN StoreUserSession(@, u, ok, t)
                        ELSE ClearUserSession(@, ok)]

\* Variant of HandleAuthStateChangeResult that notifies the listeners
\* before it writes or clears the session cache.
HandleAuthStateChangeNotifyFirst(pg, u, ok, t) ==
    LET assigned == [pg EXCEPT !.cur = u]
        fanned == ForEachListener(assigned, u, 1, Len(assigned.listeners))
    IN  [fanned EXCEPT !.sess = UpdateIdentity(pg, u, ok, t).sess]

\* handleAuthStateChange(user): the page after the whole handler.
HandleAuthStateChangeResult(pg, u, ok, t) ==
    LET updated == UpdateIdentity(pg, u, ok, t)
    IN  ForEachListener(updated, u, 1, Len(updated.listeners))

\* Variant of OnAuthStateChangedResult whose immediate call is guarded by
\* the truthiness of currentUser ("if we already have a user").
OnAuthStateChangedIfUser(pg, cb, keep) ==
    LET sub == IF keep THEN Len(pg.handles) + 1 ELSE 0
        e == [cb |-> cb, sub |-> sub]
        pushed == [pg EXCEPT
                      !.listeners = Append(@, e),
                      !.handles =
                          IF keep
                          THEN Append(@, [cb |-> cb, returned |-> FALSE, called |-> FALSE])
                          ELSE @]
        called == IF Truthy(pushed.cur) THEN Invoke(pushed, e, pushed.cur, "replay")
                  ELSE pushed
    IN  IF keep /\ ~called.raised
        THEN [called EXCEPT !.handles[sub].returned = TRUE]
        ELSE called

\* onAuthStateChanged(callback) for a function: push, then the immediate
\* call guarded by currentUser !== undefined.  currentUser is never
\* undefined (it starts as null), so the guard is always true.
\* keep is TRUE when the caller keeps the returned unsubscribe function
\* (page code does, createContentGate and initializeAuthUI drop it).
OnAuthStateChangedResult(pg, cb, keep) ==
    LET sub == IF keep THEN Len(pg.handles) + 1 ELSE 0
        e == [cb |-> cb, sub |-> sub]
        pushed == [pg EXCEPT
                      !.listeners = Append(@, e),
                      !.handles =
                          IF keep
                          THEN Append(@, [cb |-> cb, returned |-> FALSE, called |-> FALSE])
                          ELSE @]
        called == Invoke(pushed, e, pushed.cur, "replay")
    IN  \* the unsubscribe function is returned unless the call raised
        IF keep /\ ~called.raised
        THEN [called EXCEPT !.handles[sub].returned = TRUE]
        ELSE called

\* ------------------------------------------------- content gating (auth-ui)

\* Variant of RequireAuthAllows that tests `user !== undefined`, the test
\* onAuthStateChanged uses, instead of the truthiness of user.
RequireAuthAllowsDefined(loaded, cur, entry) == loaded

\* Variant of RequireAuthAllows that falls back on the cached session when
\* no identity is current.
RequireAuthAllowsCached(loaded, cur, entry) ==
    loaded /\ (Truthy(cur) \/ Truthy(GetStoredUserSession(entry, TRUE).uid))

\* Variant of RequireAuthAllows that lets the caller through when the auth
\* module is missing.
RequireAuthFailOpen(loaded, cur, entry) == ~loaded \/ Truthy(cur)

\* requireAuth: the value of `user` it tests, window.MLInterviewAuth
\* ?.getCurrentUser?.(), is undefined (falsy) without the auth module.
\* entry is the cached session, which the function does not read.
RequireAuthAllows(loaded, cur, entry) == loaded /\ Truthy(cur)

\* showLoginModal() of auth-ui: delegates to the auth module if it is
\* loaded, logs an error otherwise.  The modal after the call.
ShowLoginModalResult(loaded, modal) == modal \/ loaded

\* requireAuth(options) with options = {showModal, redirectTo}: the result,
\* window.location.href and the modal after the call.
RequireAuthResult(loaded, cur, entry, showModal, redirectTo, loc, modal) ==
    IF RequireAuthAllows(loaded, cur, entry)
    THEN [result |-> TRUE, location |-> loc, modal |-> modal]
    ELSE IF redirectTo # Null
    THEN [result |-> FALSE, location |-> redirectTo, modal |-> modal]
    ELSE IF showModal
    THEN \* showLoginModal() of auth-ui delegates to the auth module, or logs
         [result |-> FALSE, location |-> loc,
          modal |-> ShowLoginModalResult(loaded, modal)]
    ELSE [result |-> FALSE, location |-> loc, modal |-> modal]

\* createContentGate(container) past the early returns: wrap the children,
\* append the overlay, set container._authGate, and register the closure.
CreateContentGateResult(pg, c, k, loaded) ==
    LET gated == [pg EXCEPT !.dom[c] = <<Wrapper(k, pg.dom[c]), Overlay(k)>>,
                            !.authGate[c] = k]
    IN  IF loaded THEN OnAuthStateChangedResult(gated, GateCallback(k, c), FALSE)
        ELSE gated

\* ------------------------------------------- protected elements (auth-ui)

\* The event object of a click.
ClickEvent == "click"

\* A value of element.onclick is modelled by the sequence of its layers,
\* outermost first: <<>> is null, OriginalHandler the function page code
\* assigned, ProtectedHandler(...) the function protectContent installs,
\* whose closure holds the options and, as originalOnClick, the layers
\* below it.
OriginalHandler == [kind |-> "original", showModal |-> FALSE, redirectTo |-> Null]

ProtectedHandler(showModal, redirectTo) ==
    [kind |-> "protected", showModal |-> showModal, redirectTo |-> redirectTo]

\* The element: onclick, whether page code added a click listener with
\* addEventListener, and the attributes data-protected and
\* data-auth-required.
Element(authRequired) ==
    [onclick |-> <<>>, listener |-> FALSE, protected |-> FALSE,
     authRequired |-> authRequired]

\* protectContent(element, options): the element after the call.
ProtectContentResult(el, showModal, redirectTo) ==
    [el EXCEPT !.onclick = <<ProtectedHandler(showModal, redirectTo)>> \o @,
               !.protected = TRUE]

\* The unprotect function protectContent returns.
UnprotectResult(el) == [el EXCEPT !.protected = FALSE]

\* What a click has done so far: window.location.href, the modal, whether
\* preventDefault and stopPropagation were called, the event the page's own
\* onclick function was called with (null: not called), and the results of
\* the requireAuth calls made.
ClickState(loc, modal) ==
    [location |-> loc, modal |-> modal, prevented |-> FALSE, stopped |-> FALSE,
     original |-> Null, checks |-> <<>>]

\* Variant of OnclickResult whose protected handler does not call the
\* handler it replaced.
OnclickResultDropOriginal(layers, event, loaded, cur, entry, cs) ==
    IF layers = <<>> THEN cs
    ELSE IF layers[1].kind = "original" THEN [cs EXCEPT !.original = event]
    ELSE
        LET r == RequireAuthResult(loaded, cur, entry, layers[1].showModal,
                                   layers[1].redirectTo, cs.location, cs.modal)
            checked == [cs EXCEPT !.location = r.location, !.modal = r.modal,
                                  !.checks = Append(@, r.result)]
        IN  IF ~r.result
            THEN [checked EXCEPT !.prevented = TRUE, !.stopped = TRUE]
            ELSE checked

RECURSIVE OnclickResult(_, _, _, _, _, _)
\* The call element.onclick(event) of the click dispatch: the page's own
\* function, or the function protectContent installed, which calls
\* requireAuth(options) and then originalOnClick.call(this, event).
OnclickResult(layers, event, loaded, cur, entry, cs) ==
    IF layers = <<>> THEN cs
    ELSE IF layers[1].kind = "original" THEN [cs EXCEPT !.original = event]
    ELSE
        LET r == RequireAuthResult(loaded, cur, entry, layers[1].showModal,
                                   layers[1].redirectTo, cs.location, cs.modal)
            checked == [cs EXCEPT !.location = r.location, !.modal = r.modal,
                                  !.checks = Append(@, r.result)]
        IN  IF ~r.result
            THEN [checked EXCEPT !.prevented = TRUE, !.stopped = TRUE]
            ELSE OnclickResult(Tail(layers), event, loaded, cur, entry, checked)

\* ------------------------------------------------- sign-in errors (auth.js)

\* The sign-in buttons of the login modal that the model clicks (two of the
\* four providers).
Providers == {"google", "apple"}

\* errorMessages of handleAuthError.
ErrorMessages ==
    ("auth/popup-closed-by-user" :> "Sign-in was cancelled. Please try again.") @@
    ("auth/popup-blocked" :>
        "Sign-in popup was blocked. Please allow popups for this site.") @@
    ("auth/cancelled-popup-request" :> "Sign-in was cancelled.") @@
    ("auth/network-request-failed" :> "Network error. Please check your connection.") @@
    ("auth/too-many-requests" :> "Too many attempts. Please try again later.") @@
    ("auth/user-disabled" :> "This account has been disabled.") @@
    ("auth/account-exists-with-different-credential" :>
        "An account already exists with the same email but different sign-in credentials.") @@
    ("auth/auth-domain-config-required" :> "Authentication domain not configured.") @@
    ("auth/operation-not-allowed" :> "This sign-in method is not enabled.") @@
    ("auth/unauthorized-domain" :> "This domain is not authorized for sign-in.") @@
    ("auth/invalid-api-key" :> "Invalid API key. Please check Firebase configuration.")

\* userMessage before the lookup.
GenericMessage == "An error occurred during authentication."

\* error.message of the error signInWithPopup rejects with.
ProviderMessage == "Firebase: Error"

\* error.code of the rejections the model draws: two codes of the table, a
\* code that is not in it, and an error without a code.
ErrorCodes ==
    {"auth/popup-closed-by-user", "auth/network-request-failed",
     "auth/internal-error", Null}

\* Variant of HandleAuthError that hands the provider's own message on.
HandleAuthErrorPassThrough(code, original) == [message |-> original, code |-> code]

\* handleAuthError(error): the enhanced error, by its message and code.
HandleAuthError(code, original) ==
    [message |-> IF code \in DOMAIN ErrorMessages THEN ErrorMessages[code]
                 ELSE GenericMessage,
     code |-> code]

\* ------------------------------------------- progress ledgers (database.js)

\* The problems of the catalog that the model tracks.
Problems == {"lc_1", "lc_2"}

\* No localStorage item (getItem returns null) / no Firestore document.
None == "none"

\* The statuses the user picks in the catalog's dropdown (two of its four:
\* not-started, working, need-help, solved).
CatalogStatuses == {"working", "solved"}

\* The status another device of the account pushes to a remote record.
OtherDeviceStatuses == {"solved"}

\* The problem another device of the account has a record of in the time
\* tracking scenarios.
OtherDeviceProblems == {"lc_1"}

\* The accounts that sign in on this device in the sync scenarios.
SyncUsers == {"u1"}

\* users/{uid} does not exist.
NoProfile == [exists |-> FALSE, problemsSolved |-> 0, problemsAccessed |-> 0]

\* The document createOrUpdateUserProfile sets for a new user.
NewProfile == [exists |-> TRUE, problemsSolved |-> 0, problemsAccessed |-> 0]

\* The part of createOrUpdateUserProfile after `await userRef.get()`:
\* update (which leaves stats alone) if the document was seen, set otherwise.
CreateOrUpdateUserProfileWrite(st, uid, sawExists) ==
    IF sawExists THEN st ELSE [st EXCEPT ![uid] = NewProfile]

\* updateUserStats(uid, {problemsSolved, problemsAccessed}): increments on
\* users/{uid}; update() of a missing document rejects, which is caught.
UpdateUserStats(st, uid, solvedInc, accessedInc) ==
    IF st[uid].exists
    THEN [st EXCEPT ![uid].problemsSolved = @ + solvedInc,
                    ![uid].problemsAccessed = @ + accessedInc]
    ELSE st

\* One resumption of updateProblemProgress(uid, problemId, status) after an
\* await.  call names the await the function is suspended at:
\*   get           await progressRef.get()
\*   statsSolved   await updateUserStats(userId, {problemsSolved: 1})
\*   update        await progressRef.update(updates)
\*   set           await progressRef.set({...})
\*   statsAccessed await updateUserStats(userId, statsUpdate)
\* The result holds the remote records, the stats and the next await
\* ("done": the function returned).
UpdateProblemProgressStep(progress, st, uid, problemId, status, call) ==
    LET data == progress[uid][problemId]
    IN  CASE call = "get" ->
               [progress |-> progress, stats |-> st,
                call |-> IF data = None THEN "set"
                         ELSE IF status = "solved" /\ data # "solved" THEN "statsSolved"
                         ELSE "update"]
          [] call = "statsSolved" ->
               [progress |-> progress, stats |-> UpdateUserStats(st, uid, 1, 0),
                call |-> "update"]
          [] call = "update" ->
               \* update() of a missing document rejects; documents are never deleted
               [progress |-> IF data = None THEN progress
                             ELSE [progress EXCEPT ![uid][problemId] = status],
                stats |-> st, call |-> "done"]
          [] call = "set" ->
               [progress |-> [progress EXCEPT ![uid][problemId] = status],
                stats |-> st, call |-> "statsAccessed"]
          [] call = "statsAccessed" ->
               [progress |-> progress,
                stats |-> UpdateUserStats(st, uid, IF status = "solved" THEN 1 ELSE 0, 1),
                call |-> "done"]

RECURSIVE UpdateProblemProgressResult(_, _, _, _, _, _)
\* updateProblemProgress run from the given await to its return with no
\* other operation in between (a call made on another device).
UpdateProblemProgressResult(progress, st, uid, problemId, status, call) ==
    IF call = "done" THEN [progress |-> progress, stats |-> st, call |-> call]
    ELSE LET r == UpdateProblemProgressStep(progress, st, uid, problemId, status, call)
         IN  UpdateProblemProgressResult(r.progress, r.stats, uid, problemId, status, r.call)

\* Variant of SyncFirestoreToLocalStorage that writes no item.
SyncFirestoreToLocalStorageNothing(local, records) == local

\* syncFirestoreToLocalStorage after `await getAllProgress(userId)`:
\* localStorage.setItem('progress_' + item.problemId, item.status) for every
\* remote record.
SyncFirestoreToLocalStorage(local, records) ==
    [p \in Problems |-> IF records[p] # None THEN records[p] ELSE local[p]]

\* The promise chain handleAuthStateChange starts for a present identity.
\* pc names the call of the chain that is pending:
\*   profile   createOrUpdateUserProfile (its get and its write as one step:
\*             the progress records do not depend on how two of them mix)
\*   login     recordLogin
\*   push      syncLocalStorageToFirestore (call: the await of the
\*             updateProblemProgress in progress)
\*   pull      syncFirestoreToLocalStorage
\* keys are the progressKeys not yet visited.  History: snapshot, the
\* progressKeys of the push; processed, the keys whose updateProblemProgress
\* returned; fresh, the identity was absent before; and, kept for fresh
\* chains only: disturbed, the user or another device changed a ledger since
\* the chain started; startLocal, startRemote, startSynced, the two ledgers
\* and the records this device's last reconciliation of the account left
\* equal in both, all at the notification.  More history: written, the keys
\* whose remote record the push has written; faulted, a call of the chain
\* has failed, failedAt in which part ("push", "stats", "pull", "list") and
\* failedKey for which record; repeat, the chain started when a
\* reconciliation of the same identity had just completed (Repeats); and,
\* for fresh
\* repeat chains, startStats and startStamps, the stats and the
\* lastUpdatedAt of the remote records at the notification; and, for fresh
\* chains, edits, the last status the user picked for each problem while
\* the push or the pull was in flight.
NewChain(uid, fresh, repeat, local, records, lastSynced, st, stamps) ==
    [uid |-> uid, pc |-> "profile", keys |-> {},
     problemId |-> "", status |-> "", call |-> "", snapshot |-> {},
     processed |-> {}, fresh |-> fresh, disturbed |-> FALSE,
     startLocal |-> IF fresh THEN local ELSE [p \in Problems |-> None],
     startRemote |-> IF fresh THEN records ELSE [p \in Problems |-> None],
     startSynced |-> IF fresh THEN lastSynced ELSE [p \in Problems |-> None],
     written |-> {}, faulted |-> FALSE, failedAt |-> "", failedKey |-> None,
     repeat |-> repeat,
     startStats |-> IF fresh /\ repeat THEN st ELSE NoProfile,
     startStamps |-> IF fresh /\ repeat THEN stamps ELSE [p \in Problems |-> 0],
     edits |-> [p \in Problems |-> None]]

NoRun ==
    [NewChain(Null, FALSE, FALSE, [p \in Problems |-> None],
              [p \in Problems |-> None], [p \in Problems |-> None], NoProfile,
              [p \in Problems |-> 0]) EXCEPT !.pc = ""]

\* What can go wrong at a resumption of a chain: nothing, the pending
\* Firestore call rejects, or a localStorage.setItem call raises.
NoFault == "none"

Faults == {NoFault, "remote", "storage"}

\* syncLocalStorageToFirestore's return value: syncedCount, incremented
\* after every updateProblemProgress call that has returned.
SyncedCount(c) == Cardinality(c.processed)

\* Variant of PushFinished: the push reports completion without visiting
\* the keys (its loop does not await).
PushFinishedEarly(c) == TRUE

\* The for loop of syncLocalStorageToFirestore has visited every key, so
\* the function returns and its promise resolves.
PushFinished(c) == c.keys = {}

\* The chains the push can continue as after an updateProblemProgress call
\* has returned (or at its start): the loop visits one of the remaining
\* keys (Object.keys(localStorage) fixes no order), reads its item and calls
\* updateProblemProgress, or the push ends and the pull issues
\* getAllProgress.
ContinuePush(c, local) ==
    IF PushFinished(c)
    THEN {[c EXCEPT !.pc = "pull", !.call = ""]}
    ELSE {[c EXCEPT !.pc = "push", !.keys = @ \ {k}, !.problemId = k,
                    !.status = local[k], !.call = "get"] : k \in c.keys}

\* The pending Firestore call of updateProblemProgress rejects.  A
\* rejection inside updateUserStats is caught there and
\* updateProblemProgress goes on; any other is caught by
\* updateProblemProgress, which returns false.  The next await ("done": the
\* function returned).
UpdateProblemProgressRejected(call) ==
    IF call = "statsSolved" THEN "update" ELSE "done"

\* updateProblemProgress, resumed at the given await, writes the progress
\* document (progressRef.update of an existing document, or set) and with
\* it lastUpdatedAt.
WritesRecord(progress, uid, problemId, call) ==
    \/ call = "set"
    \/ call = "update" /\ progress[uid][problemId] # None

\* The local ledgers syncFirestoreToLocalStorage can leave when setItem
\* raises for record k: getAllProgress lists the records by lastUpdatedAt,
\* latest first (equal times in any order), the loop has written the ones
\* listed before k, and the catch ends it.
PullAbortedAt(local, records, stamps, k) ==
    LET listed == {p \in Problems : records[p] # None}
        surely == {p \in listed : stamps[p] > stamps[k]}
        maybe == {p \in listed \ {k} : stamps[p] = stamps[k]}
    IN  {[p \in Problems |-> IF p \in surely \cup some THEN records[p] ELSE local[p]] :
            some \in SUBSET maybe}

\* The states one resumption of chain c can lead to when the given fault
\* happens at it: the chain (pc "done" when it has ended), the local
\* ledger, the remote records, their lastUpdatedAt and the stats.  t is the
\* time.  Faults are taken in the push and in the pull, one per chain.
ChainSuccessorsFault(c, local, progress, st, stamps, t, fault) ==
    CASE fault # NoFault /\ (c.faulted \/ c.pc \notin {"push", "pull"}) -> {}
      [] fault = NoFault /\ c.pc = "profile" ->
           {[chain |-> [c EXCEPT !.pc = "login"], local |-> local,
             progress |-> progress, stamps |-> stamps,
             stats |-> CreateOrUpdateUserProfileWrite(st, c.uid, st[c.uid].exists)]}
      [] fault = NoFault /\ c.pc = "login" ->
           \* recordLogin resolved; syncLocalStorageToFirestore starts
           LET progressKeys == {p \in Problems : local[p] # None}
           IN  {[chain |-> n, local |-> local, progress |-> progress,
                 stamps |-> stamps, stats |-> st] :
                   n \in ContinuePush([c EXCEPT !.keys = progressKeys,
                                                !.snapshot = progressKeys], local)}
      [] fault = NoFault /\ c.pc = "push" ->
           LET r == UpdateProblemProgressStep(progress, st, c.uid, c.problemId,
                                              c.status, c.call)
               wrote == WritesRecord(progress, c.uid, c.problemId, c.call)
               w == IF wrote THEN [c EXCEPT !.written = @ \cup {c.problemId}] ELSE c
               stamped == IF wrote THEN [stamps EXCEPT ![c.uid][c.problemId] = t]
                          ELSE stamps
           IN  IF r.call = "done"
               THEN {[chain |-> n, local |-> local, progress |-> r.progress,
                      stamps |-> stamped, stats |-> r.stats] :
                        n \in ContinuePush([w EXCEPT !.processed = @ \cup {c.problemId}],
                                           local)}
               ELSE {[chain |-> [w EXCEPT !.call = r.call], local |-> local,
                      progress |-> r.progress, stamps |-> stamped, stats |-> r.stats]}
      [] fault = "remote" /\ c.pc = "push" ->
           LET next == UpdateProblemProgressRejected(c.call)
               f == [c EXCEPT !.faulted = TRUE,
                              !.failedAt = IF c.call \in {"statsSolved", "statsAccessed"}
                                           THEN "stats" ELSE "push",
                              !.failedKey = c.problemId]
           IN  IF next = "done"
               THEN {[chain |-> n, local |-> local, progress |-> progress,
                      stamps |-> stamps, stats |-> st] :
                        n \in ContinuePush([f EXCEPT !.processed = @ \cup {c.problemId}],
                                           local)}
               ELSE {[chain |-> [f EXCEPT !.call = next], local |-> local,
                      progress |-> progress, stamps |-> stamps, stats |-> st]}
      [] fault = "storage" /\ c.pc = "push" -> {}
      [] fault = NoFault /\ c.pc = "pull" ->
           {[chain |-> [c EXCEPT !.pc = "done"],
             local |-> SyncFirestoreToLocalStorage(local, progress[c.uid]),
             progress |-> progress, stamps |-> stamps, stats |-> st]}
      [] fault = "remote" /\ c.pc = "pull" ->
           \* getAllProgress catches the rejection and returns []
           {[chain |-> [c EXCEPT !.pc = "done", !.faulted = TRUE, !.failedAt = "list"],
             local |-> local, progress |-> progress, stamps |-> stamps, stats |-> st]}
      [] fault = "storage" /\ c.pc = "pull" ->
           UNION {{[chain |-> [c EXCEPT !.pc = "done", !.faulted = TRUE,
                                        !.failedAt = "pull", !.failedKey = k],
                    local |-> l, progress |-> progress, stamps |-> stamps,
                    stats |-> st] :
                      l \in PullAbortedAt(local, progress[c.uid], stamps[c.uid], k)} :
                  k \in {p \in Problems : progress[c.uid][p] # None}}

\* The states one resumption of chain c can lead to when nothing fails.
ChainSuccessors(c, local, progress, st, stamps, t) ==
    ChainSuccessorsFault(c, local, progress, st, stamps, t, NoFault)

\* --------------------------------------------------- time tracking (database.js)

\* activeTimeTracker (timer: an interval is set), currentProblemId,
\* sessionStartTime (started: it is not null; elapsed: the whole seconds
\* since), the userId the interval callback closes over, whether the
\* visibilitychange and beforeunload listeners are registered, and whether an
\* interval callback is suspended at `await updateTimeSpent(...)`.
NoTracker ==
    [timer |-> FALSE, userId |-> Null, problemId |-> Null, started |-> FALSE,
     elapsed |-> 0, listening |-> FALSE, saving |-> FALSE, passed |-> 0]

\* A call that saves tracked time: updateTimeSpent(userId, problemId,
\* seconds) or navigator.sendBeacon('/api/time-spent', {userId, problemId,
\* seconds}); awaited: the caller suspends until it has completed.
Flush(via, userId, problemId, seconds, awaited) ==
    [via |-> via, userId |-> userId, problemId |-> problemId, seconds |-> seconds,
     awaited |-> awaited]

NoFlush == Flush("", Null, Null, 0, FALSE)

\* updateTimeSpent(userId, problemId, seconds), its two writes taken as
\* applied when the call is issued: progressRef.update rejects for a missing
\* document and the catch skips updateUserStats; userRef.update rejects for
\* a missing user document.
UpdateTimeSpent(sp, hasDb, records, st, userId, problemId, seconds) ==
    IF ~hasDb \/ ~Truthy(userId) \/ problemId = Null \/ seconds <= 0 THEN sp
    ELSE IF records[userId][problemId] = None THEN sp
    ELSE [records |-> [sp.records EXCEPT ![userId][problemId] = @ + seconds],
          total |-> IF st[userId].exists
                    THEN [sp.total EXCEPT ![userId] = @ + seconds]
                    ELSE sp.total]

\* window.MLInterviewAuth?.getCurrentUser()?.uid
CurrentUid(loaded, cur) == IF loaded THEN cur ELSE Null

\* The test handleVisibilityChange, saveTimeBeforeUnload and
\* stopTimeTracking make before they save: sessionStartTime and
\* currentProblemId are set, a whole second has elapsed, and a user is
\* signed in.
SavesTime(t, uid) ==
    t.started /\ t.problemId # Null /\ t.elapsed > 0 /\ Truthy(uid)

\* Variant of VisibilityFlush that awaits the update.
VisibilityFlushAwaited(t, uid) ==
    IF SavesTime(t, uid)
    THEN Flush("updateTimeSpent", uid, t.problemId, t.elapsed, TRUE)
    ELSE NoFlush

\* The call handleVisibilityChange makes when the document is hidden.
VisibilityFlush(t, uid) ==
    IF SavesTime(t, uid)
    THEN Flush("updateTimeSpent", uid, t.problemId, t.elapsed, FALSE)
    ELSE NoFlush

\* The call saveTimeBeforeUnload makes (every browser that parses the
\* optional chaining of database.js has navigator.sendBeacon).
UnloadFlush(t, uid) ==
    IF SavesTime(t, uid)
    THEN Flush("beacon", uid, t.problemId, t.elapsed, FALSE)
    ELSE NoFlush

\* stopTimeTracking(): the tracker after the call.  A suspended interval
\* callback stays suspended.
StopTimeTrackingResult(t) ==
    [t EXCEPT !.timer = FALSE, !.userId = Null, !.problemId = Null,
              !.started = FALSE, !.elapsed = 0, !.listening = FALSE]

\* No time saved: timeSpent of every progress record and
\* stats.totalTimeSpent of every user are 0.
NoTimeSpent ==
    [records |-> [u \in Users |-> [p \in Problems |-> 0]], total |-> [u \in Users |-> 0]]

\* ------------------------------------------------------------ initial state

\* What the session item can hold when the page loads: nothing, the session
\* a previous page load stored, or a text that is no JSON.
InitialEntries ==
    {NoEntry, CorruptEntry, JsonStringify(SessionData("u1", 0))}

NoCallback == Callback("", 0, "")

\* The history record of an operation; fields an operation does not use
\* keep these values.  before is authStateListeners before the operation,
\* other the result of the same call in the second run.
Op(name) ==
    [op |-> name, user |-> Null, cb |-> NoCallback, sub |-> 0, raised |-> FALSE,
     result |-> FALSE, storage |-> TRUE, before |-> <<>>, trace |-> <<>>,
     baseline |-> <<>>, showModal |-> FALSE, redirectTo |-> Null,
     navigated |-> FALSE, prompted |-> FALSE, again |-> FALSE, other |-> FALSE,
     loaded |-> FALSE, click |-> ClickState("", FALSE), listenerRan |-> FALSE,
     onclick |-> <<>>, prev |-> Null, started |-> 0, run |-> NoRun,
     data |-> NoData, button |-> "", code |-> Null, modal |-> FALSE,
     flush |-> NoFlush, tracked |-> NoTracker]

Init ==
    /\ authLoaded = FALSE
    /\ currentUser = Null
    /\ authStateListeners = <<>>
    /\ session \in InitialEntries
    /\ storageOK = TRUE
    /\ now = 1
    /\ handles = <<>>
    /\ lastDelivered = Null
    /\ authState = [initialized |-> FALSE, loading |-> TRUE, user |-> Null]
    /\ bodyClass = {}
    /\ uiPhase = "start"
    /\ dom = [c \in Containers |-> <<Content>>]
    /\ authGate = [c \in Containers |-> 0]
    /\ gateCount = 0
    /\ protectedRedirect = Null
    /\ location = "/page"
    /\ modalShown = FALSE
    /\ twin \in [session : InitialEntries, cur : {Null}]
    /\ element \in {Element(FALSE), Element(TRUE)}
    /\ dbLoaded = FALSE
    /\ db = FALSE
    /\ localProgress = [p \in Problems |-> None]
    /\ remoteProgress = [u \in Users |-> [p \in Problems |-> None]]
    /\ stats = [u \in Users |-> NoProfile]
    /\ chains = <<>>
    /\ synced = [u \in Users |-> [p \in Problems |-> None]]
    /\ updatedAt = [u \in Users |-> [p \in Problems |-> 0]]
    /\ remoteEdits = 0
    /\ localEdits = 0
    /\ pageCalls = <<>>
    /\ issued = 0
    /\ cacheWrite = "none"
    /\ authError = ""
    /\ loadingButtons = {}
    /\ attempts = {}
    /\ tracker = NoTracker
    /\ spent = NoTimeSpent
    /\ lastOp = Op("load")

\* The initial states in which the second run starts from the same cache.
InitSame == Init /\ twin.session = session

\* The variables a listener invocation can change, taken from a page record.
TakePage(pg) ==
    /\ authStateListeners' = pg.listeners
    /\ handles' = pg.handles
    /\ authState' = pg.authState
    /\ bodyClass' = pg.bodyClass
    /\ dom' = pg.dom
    /\ authGate' = pg.authGate

\* The page is still the loaded document (no navigation has been started).
Alive == location = "/page"

\* Number of notifications delivered so far (the clock ticks once with each).
Notified == now - 1

\* ----------------------------------------------------------------- actions

\* auth.js runs: window.MLInterviewAuth is assigned and initializeFirebase
\* hands handleAuthStateChange to the auth provider.
LoadAuthModule ==
    /\ Alive
    /\ ~authLoaded
    /\ authLoaded' = TRUE
    /\ lastOp' = Op("loadAuth")
    /\ UNCHANGED <<element, dbVars>>
    /\ UNCHANGED <<currentUser, authStateListeners, session, storageOK, now, handles,
                   lastDelivered, authState, bodyClass, uiPhase, dom, authGate,
                   gateCount, protectedRedirect, location, modalShown, twin>>
    /\ UNCHANGED cacheWrite
    /\ UNCHANGED <<signVars, trackVars>>

\* handleAuthStateChange(u) starts its promise chain: the identity is
\* present and window.MLInterviewDB is defined.  While db is not set, every
\* call of the chain returns at its `if (!db ...)` check and the whole chain
\* runs off in the microtasks that follow the handler: nothing stays in
\* flight.
StartsChain(u) == Truthy(u) /\ dbLoaded /\ db

\* History: the chain that has just ended, if nothing but a sign-out has
\* happened since.
LastRun ==
    IF lastOp.op = "reconciled" \/ (lastOp.op = "notify" /\ lastOp.user = Null)
    THEN lastOp.run ELSE NoRun

\* History: a chain started for u now runs right after one of u, started by
\* an absent-to-present transition, that ended without a failure and
\* without a change of a ledger by the user or another device, and no other
\* chain is in flight.
Repeats(u) ==
    /\ LastRun.pc = "done" /\ LastRun.uid = u /\ LastRun.fresh
    /\ ~LastRun.faulted /\ ~LastRun.disturbed
    /\ chains = <<>>

\* The auth provider calls handleAuthStateChange(u).
HandleAuthStateChange(u) ==
    /\ Alive
    /\ authLoaded
    /\ Notified < MaxNotify
    /\ StartsChain(u) => Len(chains) < MaxChains
    /\ LET pg == HandleAuthStateChangeResult(Page, u, storageOK, now)
           quiet == HandleAuthStateChangeResult([Page EXCEPT !.mute = TRUE],
                                                u, storageOK, now)
           other == UpdateIdentity([Page EXCEPT !.cur = twin.cur, !.sess = twin.session],
                                   u, storageOK, now)
       IN  /\ TakePage(pg)
           /\ currentUser' = pg.cur
           /\ session' = pg.sess
           /\ twin' = [twin EXCEPT !.cur = other.cur, !.session = other.sess]
           /\ lastOp' = [Op("notify") EXCEPT
                            !.user = u, !.raised = pg.raised, !.storage = storageOK,
                            !.before = authStateListeners, !.trace = pg.trace,
                            !.baseline = [i \in 1..Len(quiet.trace) |->
                                            [cb |-> quiet.trace[i].cb,
                                             sub |-> quiet.trace[i].sub]],
                            !.prev = currentUser,
                            !.started = IF StartsChain(u) THEN 1 ELSE 0,
                            !.run = IF u = Null THEN LastRun ELSE NoRun]
    /\ chains' = IF StartsChain(u)
                 THEN Append(chains,
                             NewChain(u, ~Truthy(currentUser), Repeats(u),
                                      localProgress, remoteProgress[u], synced[u],
                                      stats[u], updatedAt[u]))
                 ELSE chains
    /\ lastDelivered' = u
    /\ cacheWrite' = CacheWriteOutcome(u, storageOK)
    /\ now' = now + 1
    /\ UNCHANGED <<element, dbLoaded, db, localProgress, remoteProgress, stats,
                   updatedAt, synced, remoteEdits, localEdits>>
    /\ UNCHANGED <<authLoaded, storageOK, uiPhase, gateCount, protectedRedirect,
                   location, modalShown>>
    /\ UNCHANGED <<signVars, trackVars>>
    /\ UNCHANGED <<pageCalls, issued>>

\* Page code calls MLInterviewAuth.onAuthStateChanged(cb) with a function
\* and keeps what it returns.
Subscribe(cb) ==
    /\ Alive
    /\ authLoaded
    /\ Len(handles) < MaxRegs
    /\ LET pg == OnAuthStateChangedResult(Page, cb, TRUE)
       IN  /\ TakePage(pg)
           /\ lastOp' = [Op("subscribe") EXCEPT
                            !.cb = cb, !.raised = pg.raised, !.trace = pg.trace,
                            !.before = authStateListeners]
    /\ UNCHANGED <<element, dbVars>>
    /\ UNCHANGED <<authLoaded, currentUser, session, storageOK, now, lastDelivered,
                   uiPhase, gateCount, protectedRedirect, location, modalShown, twin>>
    /\ UNCHANGED cacheWrite
    /\ UNCHANGED <<signVars, trackVars>>

\* Page code calls onAuthStateChanged with something that is no function:
\* the call throws before it touches the listener array.
SubscribeNoFunction ==
    /\ Alive
    /\ authLoaded
    /\ lastOp' = [Op("subscribeNoFunction") EXCEPT !.raised = TRUE]
    /\ UNCHANGED <<element, dbVars>>
    /\ UNCHANGED <<authLoaded, currentUser, authStateListeners, session, storageOK,
                   now, handles, lastDelivered, authState, bodyClass, uiPhase, dom,
                   authGate, gateCount, protectedRedirect, location, modalShown, twin>>
    /\ UNCHANGED cacheWrite
    /\ UNCHANGED <<signVars, trackVars>>

\* Page code calls the unsubscribe function handles[h] (for the first or for
\* a further time).
Unsubscribe(h) ==
    /\ Alive
    /\ handles[h].returned
    /\ authStateListeners' = UnsubscribeFn(authStateListeners, handles[h].cb)
    /\ handles' = [handles EXCEPT ![h].called = TRUE]
    /\ lastOp' = [Op("unsubscribe") EXCEPT
                     !.cb = handles[h].cb, !.sub = h, !.before = authStateListeners,
                     !.again = handles[h].called]
    /\ UNCHANGED <<element, dbVars>>
    /\ UNCHANGED <<authLoaded, currentUser, session, storageOK, now, lastDelivered,
                   authState, bodyClass, uiPhase, dom, authGate, gateCount,
                   protectedRedirect, location, modalShown, twin>>
    /\ UNCHANGED cacheWrite
    /\ UNCHANGED <<signVars, trackVars>>

\* initializeAuthUI(), run once when the DOM is ready.
InitializeAuthUI ==
    /\ Alive
    /\ uiPhase = "start"
    /\ LET loading == [Page EXCEPT !.bodyClass = @ \cup {"auth-loading"}]
           registered == OnAuthStateChangedResult(loading, UiCallback, FALSE)
           stored == GetStoredUserSession(session, storageOK)
           pg == IF ~authLoaded THEN loading
                 ELSE IF Truthy(stored.uid)
                 THEN UpdateUIForAuthState(registered, stored.uid)
                 ELSE registered
       IN  /\ TakePage(pg)
           /\ uiPhase' = IF authLoaded THEN "ready" ELSE "waitLoad"
           /\ lastOp' = Op("initializeAuthUI")
    \* protectContent(element, {message}) for the data-auth-required elements
    /\ element' = IF element.authRequired
                  THEN ProtectContentResult(element, TRUE, Null)
                  ELSE element
    /\ UNCHANGED dbVars
    /\ UNCHANGED <<authLoaded, currentUser, session, storageOK, now, lastDelivered,
                   gateCount, protectedRedirect, location, modalShown, twin>>
    /\ UNCHANGED cacheWrite
    /\ UNCHANGED <<signVars, trackVars>>

\* The window load listener initializeAuthUI adds when the auth module was
\* missing.
WindowLoad ==
    /\ Alive
    /\ uiPhase = "waitLoad"
    /\ LET pg == IF authLoaded
                 THEN OnAuthStateChangedResult(Page, UiCallback, FALSE)
                 ELSE [Page EXCEPT !.bodyClass = @ \ {"auth-loading"}]
       IN  /\ TakePage(pg)
           /\ lastOp' = Op("windowLoad")
    /\ uiPhase' = "ready"
    /\ UNCHANGED <<element, dbVars>>
    /\ UNCHANGED <<authLoaded, currentUser, session, storageOK, now, lastDelivered,
                   gateCount, protectedRedirect, location, modalShown, twin>>
    /\ UNCHANGED cacheWrite
    /\ UNCHANGED <<signVars, trackVars>>

\* AuthUI.configure({urls: {protectedRedirect: url}})
Configure(url) ==
    /\ Alive
    /\ protectedRedirect # url
    /\ protectedRedirect' = url
    /\ lastOp' = Op("configure")
    /\ UNCHANGED <<element, dbVars>>
    /\ UNCHANGED <<authLoaded, currentUser, authStateListeners, session, storageOK,
                   now, handles, lastDelivered, authState, bodyClass, uiPhase, dom,
                   authGate, gateCount, location, modalShown, twin>>
    /\ UNCHANGED cacheWrite
    /\ UNCHANGED <<signVars, trackVars>>

\* Page code (or a protected element's click handler) calls
\* requireAuth({showModal, redirectTo}).
RequireAuth(showModal, redirectTo) ==
    /\ Alive
    /\ LET r == RequireAuthResult(authLoaded, currentUser, session, showModal,
                                  redirectTo, location, modalShown)
           other == RequireAuthResult(authLoaded, twin.cur, twin.session, showModal,
                                      redirectTo, location, modalShown)
       IN  /\ location' = r.location
           /\ modalShown' = r.modal
           /\ lastOp' = [Op("requireAuth") EXCEPT
                            !.loaded = authLoaded,
                            !.result = r.result, !.other = other.result,
                            !.showModal = showModal,
                            !.redirectTo = redirectTo,
                            !.navigated = (r.location # location),
                            !.prompted = (r.modal /\ ~r.result /\ redirectTo = Null
                                          /\ showModal)]
    /\ UNCHANGED <<element, dbVars>>
    /\ UNCHANGED <<authLoaded, currentUser, authStateListeners, session, storageOK,
                   now, handles, lastDelivered, authState, bodyClass, uiPhase, dom,
                   authGate, gateCount, protectedRedirect, twin>>
    /\ UNCHANGED cacheWrite
    /\ UNCHANGED <<signVars, trackVars>>

\* The user closes the login modal (MLInterviewAuth.hideLoginModal).
HideLoginModal ==
    /\ Alive
    /\ modalShown
    /\ modalShown' = FALSE
    /\ authError' = ""
    /\ UNCHANGED <<loadingButtons, attempts, trackVars>>
    /\ lastOp' = Op("hideLoginModal")
    /\ UNCHANGED <<element, dbVars>>
    /\ UNCHANGED <<authLoaded, currentUser, authStateListeners, session, storageOK,
                   now, handles, lastDelivered, authState, bodyClass, uiPhase, dom,
                   authGate, gateCount, protectedRedirect, location, twin>>
    /\ UNCHANGED cacheWrite

\* Page code calls createContentGate(c).
CreateContentGate(c) ==
    /\ Alive
    /\ gateCount < MaxGates
    /\ IF authLoaded /\ Truthy(currentUser)
       THEN \* already signed in: no gate is created
            /\ lastOp' = Op("createContentGate")
            /\ UNCHANGED <<authStateListeners, handles, authState, bodyClass, dom,
                           authGate, gateCount>>
       ELSE LET pg == CreateContentGateResult(Page, c, gateCount + 1, authLoaded)
            IN  /\ TakePage(pg)
                /\ gateCount' = gateCount + 1
                /\ lastOp' = [Op("createContentGate") EXCEPT
                                 !.result = TRUE, !.loaded = authLoaded,
                                 !.sub = gateCount + 1]
    /\ UNCHANGED <<element, dbVars>>
    /\ UNCHANGED <<authLoaded, currentUser, session, storageOK, now, lastDelivered,
                   uiPhase, protectedRedirect, location, modalShown, twin>>
    /\ UNCHANGED cacheWrite
    /\ UNCHANGED <<signVars, trackVars>>

\* Page code calls removeContentGate(c), directly or through the function
\* createContentGate returned.
RemoveContentGateCall(c) ==
    /\ Alive
    /\ authGate[c] # 0
    /\ TakePage(RemoveContentGate(Page, c))
    /\ lastOp' = Op("removeContentGate")
    /\ UNCHANGED <<element, dbVars>>
    /\ UNCHANGED <<authLoaded, currentUser, session, storageOK, now, lastDelivered,
                   uiPhase, gateCount, protectedRedirect, location, modalShown, twin>>
    /\ UNCHANGED cacheWrite
    /\ UNCHANGED <<signVars, trackVars>>

\* Page code assigns its own function to element.onclick (or the markup has
\* an onclick attribute) before the element is protected.
AttachOnclick ==
    /\ Alive
    /\ element.onclick = <<>>
    /\ element' = [element EXCEPT !.onclick = <<OriginalHandler>>]
    /\ lastOp' = Op("attachOnclick")
    /\ UNCHANGED <<authLoaded, currentUser, authStateListeners, session, storageOK,
                   now, handles, lastDelivered, authState, bodyClass, uiPhase, dom,
                   authGate, gateCount, protectedRedirect, location, modalShown, twin>>
    /\ UNCHANGED dbVars
    /\ UNCHANGED cacheWrite
    /\ UNCHANGED <<signVars, trackVars>>

\* Page code calls element.addEventListener('click', handler).
AddClickListener ==
    /\ Alive
    /\ ~element.listener
    /\ element' = [element EXCEPT !.listener = TRUE]
    /\ lastOp' = Op("addClickListener")
    /\ UNCHANGED <<authLoaded, currentUser, authStateListeners, session, storageOK,
                   now, handles, lastDelivered, authState, bodyClass, uiPhase, dom,
                   authGate, gateCount, protectedRedirect, location, modalShown, twin>>
    /\ UNCHANGED dbVars
    /\ UNCHANGED cacheWrite
    /\ UNCHANGED <<signVars, trackVars>>

\* Page code calls protectContent(element, {showModal, redirectTo}).
ProtectContent(showModal, redirectTo) ==
    /\ Alive
    /\ Len(SelectSeq(element.onclick, LAMBDA h : h.kind = "protected")) < MaxProtects
    /\ element' = ProtectContentResult(element, showModal, redirectTo)
    /\ lastOp' = Op("protectContent")
    /\ UNCHANGED <<authLoaded, currentUser, authStateListeners, session, storageOK,
                   now, handles, lastDelivered, authState, bodyClass, uiPhase, dom,
                   authGate, gateCount, protectedRedirect, location, modalShown, twin>>
    /\ UNCHANGED dbVars
    /\ UNCHANGED cacheWrite
    /\ UNCHANGED <<signVars, trackVars>>

\* Page code calls the function protectContent returned.
Unprotect ==
    /\ Alive
    /\ element.protected
    /\ element' = UnprotectResult(element)
    /\ lastOp' = Op("unprotect")
    /\ UNCHANGED <<authLoaded, currentUser, authStateListeners, session, storageOK,
                   now, handles, lastDelivered, authState, bodyClass, uiPhase, dom,
                   authGate, gateCount, protectedRedirect, location, modalShown, twin>>
    /\ UNCHANGED dbVars
    /\ UNCHANGED cacheWrite
    /\ UNCHANGED <<signVars, trackVars>>

\* The user clicks the element.  The click is dispatched to the element's
\* onclick handler and to its click listener; stopPropagation() keeps the
\* event from the ancestors, not from the listeners of the element itself.
Click ==
    /\ Alive
    /\ LET cs == OnclickResult(element.onclick, ClickEvent, authLoaded, currentUser,
                               session, ClickState(location, modalShown))
       IN  /\ location' = cs.location
           /\ modalShown' = cs.modal
           /\ lastOp' = [Op("click") EXCEPT
                            !.click = cs, !.listenerRan = element.listener,
                            !.onclick = element.onclick, !.loaded = authLoaded]
    /\ UNCHANGED <<authLoaded, currentUser, authStateListeners, session, storageOK,
                   now, handles, lastDelivered, authState, bodyClass, uiPhase, dom,
                   authGate, gateCount, protectedRedirect, twin, element>>
    /\ UNCHANGED dbVars
    /\ UNCHANGED cacheWrite
    /\ UNCHANGED <<signVars, trackVars>>

\* Page code calls AuthUI.showLoginModal().
ShowLoginModal ==
    /\ Alive
    /\ ~modalShown
    /\ modalShown' = ShowLoginModalResult(authLoaded, modalShown)
    /\ lastOp' = [Op("showLoginModal") EXCEPT !.loaded = authLoaded]
    /\ UNCHANGED <<authLoaded, currentUser, authStateListeners, session, storageOK,
                   now, handles, lastDelivered, authState, bodyClass, uiPhase, dom,
                   authGate, gateCount, protectedRedirect, location, twin, element>>
    /\ UNCHANGED dbVars
    /\ UNCHANGED cacheWrite
    /\ UNCHANGED <<signVars, trackVars>>

\* database.js runs: window.MLInterviewDB is assigned.
LoadDatabase ==
    /\ Alive
    /\ ~dbLoaded
    /\ dbLoaded' = TRUE
    /\ lastOp' = Op("loadDatabase")
    /\ UNCHANGED <<authLoaded, currentUser, authStateListeners, session, storageOK,
                   now, handles, lastDelivered, authState, bodyClass, uiPhase, dom,
                   authGate, gateCount, protectedRedirect, location, modalShown, twin,
                   element, db, localProgress, remoteProgress, stats, updatedAt, chains,
                   synced, remoteEdits, localEdits>>
    /\ UNCHANGED cacheWrite
    /\ UNCHANGED <<signVars, trackVars>>
    /\ UNCHANGED <<pageCalls, issued>>

\* checkFirebase of initializeDatabase finds the Firebase app that auth.js
\* initialised, and initializeFirestore sets db.
InitializeFirestore ==
    /\ Alive
    /\ dbLoaded
    /\ authLoaded
    /\ ~db
    /\ db' = TRUE
    /\ lastOp' = Op("initializeFirestore")
    /\ UNCHANGED <<authLoaded, currentUser, authStateListeners, session, storageOK,
                   now, handles, lastDelivered, authState, bodyClass, uiPhase, dom,
                   authGate, gateCount, protectedRedirect, location, modalShown, twin,
                   element, dbLoaded, localProgress, remoteProgress, stats, updatedAt,
                   chains, synced, remoteEdits, localEdits>>
    /\ UNCHANGED cacheWrite
    /\ UNCHANGED <<signVars, trackVars>>
    /\ UNCHANGED <<pageCalls, issued>>

\* The pending call of chain i resolves, or fails with the given fault, and
\* the chain runs on to its next await.  The chain is dropped when syncFirestoreToLocalStorage has
\* returned (trackPageView, which follows, writes an analytics event only).
ChainStepFault(i, fault) ==
    /\ Alive
    /\ LET c == chains[i]
       IN  \E r \in ChainSuccessorsFault(c, localProgress, remoteProgress, stats,
                                         updatedAt, now, fault) :
              /\ localProgress' = r.local
              /\ remoteProgress' = r.progress
              /\ stats' = r.stats
              /\ updatedAt' = r.stamps
              /\ chains' = IF r.chain.pc = "done"
                           THEN SubSeq(chains, 1, i - 1) \o SubSeq(chains, i + 1, Len(chains))
                           ELSE [chains EXCEPT ![i] = r.chain]
              /\ synced' = IF r.chain.pc = "done"
                           THEN [synced EXCEPT ![c.uid] =
                                    [p \in Problems |->
                                        IF r.local[p] = r.progress[c.uid][p]
                                        THEN r.local[p] ELSE None]]
                           ELSE synced
              /\ lastOp' = IF r.chain.pc = "done"
                           THEN [Op("reconciled") EXCEPT !.run = r.chain]
                           ELSE Op("chain")
    /\ UNCHANGED <<authLoaded, currentUser, authStateListeners, session, storageOK,
                   now, handles, lastDelivered, authState, bodyClass, uiPhase, dom,
                   authGate, gateCount, protectedRedirect, location, modalShown, twin,
                   element, dbLoaded, db, remoteEdits, localEdits>>
    /\ UNCHANGED cacheWrite
    /\ UNCHANGED <<signVars, trackVars>>
    /\ UNCHANGED <<pageCalls, issued>>

\* A resumption of chain i at which nothing fails.
ChainStep(i) == ChainStepFault(i, NoFault)

\* The user picks a status in the catalog: LeetCodeRenderer.updateProgress
\* writes the localStorage item (the page defines no syncProgressToFirebase).
UpdateProgress(problemId, status) ==
    /\ Alive
    /\ localEdits < MaxLocalEdits
    /\ localProgress[problemId] # status
    /\ localProgress' = [localProgress EXCEPT ![problemId] = status]
    /\ chains' = [i \in 1..Len(chains) |->
                     [chains[i] EXCEPT
                         !.disturbed = chains[i].fresh,
                         !.edits = IF chains[i].fresh
                                      /\ chains[i].pc \in {"push", "pull"}
                                   THEN [@ EXCEPT ![problemId] = status]
                                   ELSE @]]
    /\ lastOp' = Op("updateProgress")
    /\ UNCHANGED <<authLoaded, currentUser, authStateListeners, session, storageOK,
                   now, handles, lastDelivered, authState, bodyClass, uiPhase, dom,
                   authGate, gateCount, protectedRedirect, location, modalShown, twin,
                   element, dbLoaded, db, remoteProgress, stats, updatedAt, synced,
                   remoteEdits>>
    /\ localEdits' = localEdits + 1
    /\ UNCHANGED cacheWrite
    /\ UNCHANGED <<signVars, trackVars>>
    /\ UNCHANGED <<pageCalls, issued>>

\* Another device, signed in to account u, writes a progress record:
\* its own createOrUpdateUserProfile and updateProblemProgress calls.
OtherDevice(u, problemId, status) ==
    /\ Alive
    /\ remoteEdits < MaxRemoteEdits
    /\ remoteProgress[u][problemId] # status
    /\ LET profile == CreateOrUpdateUserProfileWrite(stats, u, stats[u].exists)
           r == UpdateProblemProgressResult(remoteProgress, profile, u, problemId,
                                            status, "get")
       IN  /\ remoteProgress' = r.progress
           /\ stats' = r.stats
    /\ updatedAt' = [updatedAt EXCEPT ![u][problemId] = now]
    /\ chains' = [i \in 1..Len(chains) |->
                     IF chains[i].uid = u THEN [chains[i] EXCEPT !.disturbed = chains[i].fresh]
                     ELSE chains[i]]
    /\ remoteEdits' = remoteEdits + 1
    /\ lastOp' = Op("otherDevice")
    /\ UNCHANGED <<authLoaded, currentUser, authStateListeners, session, storageOK,
                   now, handles, lastDelivered, authState, bodyClass, uiPhase, dom,
                   authGate, gateCount, protectedRedirect, location, modalShown, twin,
                   element, dbLoaded, db, localProgress, synced, localEdits>>
    /\ UNCHANGED cacheWrite
    /\ UNCHANGED <<signVars, trackVars>>
    /\ UNCHANGED <<pageCalls, issued>>

\* The user clicks sign-in button b of the login modal: the wrapped sign-in
\* function runs up to `await signInFn()`.
StartSignIn(b) ==
    /\ Alive
    /\ authLoaded
    /\ modalShown
    /\ b \notin loadingButtons
    /\ loadingButtons' = loadingButtons \cup {b}
    /\ authError' = ""
    /\ attempts' = attempts \cup {b}
    /\ lastOp' = [Op("signIn") EXCEPT !.button = b]
    /\ UNCHANGED <<authLoaded, currentUser, authStateListeners, session, storageOK,
                   now, handles, lastDelivered, authState, bodyClass, uiPhase, dom,
                   authGate, gateCount, protectedRedirect, location, modalShown, twin,
                   element, dbVars, cacheWrite, trackVars>>

\* signInWithPopup of the call started with button b rejects with an error
\* of the given code: the sign-in function throws handleAuthError(error),
\* the wrapper's catch shows its message and the finally block resets the
\* button.
SignInFails(b, code) ==
    /\ Alive
    /\ b \in attempts
    /\ authError' = HandleAuthError(code, ProviderMessage).message
    /\ loadingButtons' = loadingButtons \ {b}
    /\ attempts' = attempts \ {b}
    /\ lastOp' = [Op("signInFailed") EXCEPT
                     !.button = b, !.code = code, !.modal = modalShown,
                     !.prev = currentUser, !.raised = FALSE]
    /\ UNCHANGED <<authLoaded, currentUser, authStateListeners, session, storageOK,
                   now, handles, lastDelivered, authState, bodyClass, uiPhase, dom,
                   authGate, gateCount, protectedRedirect, location, modalShown, twin,
                   element, dbVars, cacheWrite, trackVars>>

\* signInWithPopup of the call started with button b resolves: the wrapper
\* calls hideLoginModal and resets the button.  The provider delivers the
\* identity through handleAuthStateChange.
SignInSucceeds(b) ==
    /\ Alive
    /\ b \in attempts
    /\ modalShown' = FALSE
    /\ authError' = ""
    /\ loadingButtons' = loadingButtons \ {b}
    /\ attempts' = attempts \ {b}
    /\ lastOp' = [Op("signedIn") EXCEPT !.button = b]
    /\ UNCHANGED <<authLoaded, currentUser, authStateListeners, session, storageOK,
                   now, handles, lastDelivered, authState, bodyClass, uiPhase, dom,
                   authGate, gateCount, protectedRedirect, location, twin,
                   element, dbVars, cacheWrite, trackVars>>

\* Page code calls MLInterviewDB.startTimeTracking(u, p): stopTimeTracking
\* first, which saves the remaining time of the problem tracked so far,
\* then the new session, interval and listeners.
StartTimeTracking(u, p) ==
    /\ Alive
    /\ dbLoaded
    /\ LET uid == CurrentUid(authLoaded, currentUser)
           f == IF SavesTime(tracker, uid)
                THEN Flush("updateTimeSpent", uid, tracker.problemId,
                           tracker.elapsed, FALSE)
                ELSE NoFlush
       IN  /\ spent' = UpdateTimeSpent(spent, db, remoteProgress, stats, f.userId,
                                       f.problemId, f.seconds)
           /\ lastOp' = [Op("startTimeTracking") EXCEPT
                            !.flush = f, !.tracked = tracker, !.user = uid]
    /\ tracker' = [StopTimeTrackingResult(tracker) EXCEPT
                      !.timer = TRUE, !.userId = u, !.problemId = p,
                      !.started = TRUE, !.listening = TRUE]
    /\ UNCHANGED <<authLoaded, currentUser, authStateListeners, session, storageOK,
                   now, handles, lastDelivered, authState, bodyClass, uiPhase, dom,
                   authGate, gateCount, protectedRedirect, location, modalShown, twin,
                   element, dbVars, cacheWrite, signVars>>

\* Page code calls MLInterviewDB.stopTimeTracking().
StopTimeTracking ==
    /\ Alive
    /\ dbLoaded
    /\ tracker.timer
    /\ LET uid == CurrentUid(authLoaded, currentUser)
           f == IF SavesTime(tracker, uid)
                THEN Flush("updateTimeSpent", uid, tracker.problemId,
                           tracker.elapsed, FALSE)
                ELSE NoFlush
       IN  /\ spent' = UpdateTimeSpent(spent, db, remoteProgress, stats, f.userId,
                                       f.problemId, f.seconds)
           /\ lastOp' = [Op("stopTimeTracking") EXCEPT
                            !.flush = f, !.tracked = tracker, !.user = uid]
    /\ tracker' = StopTimeTrackingResult(tracker)
    /\ UNCHANGED <<authLoaded, currentUser, authStateListeners, session, storageOK,
                   now, handles, lastDelivered, authState, bodyClass, uiPhase, dom,
                   authGate, gateCount, protectedRedirect, location, modalShown, twin,
                   element, dbVars, cacheWrite, signVars>>

\* A second passes while sessionStartTime is set.
Tick ==
    /\ Alive
    /\ tracker.started
    /\ tracker.passed < MaxSeconds
    /\ tracker' = [tracker EXCEPT !.elapsed = @ + 1, !.passed = @ + 1]
    /\ lastOp' = Op("tick")
    /\ UNCHANGED <<authLoaded, currentUser, authStateListeners, session, storageOK,
                   now, handles, lastDelivered, authState, bodyClass, uiPhase, dom,
                   authGate, gateCount, protectedRedirect, location, modalShown, twin,
                   element, dbVars, cacheWrite, signVars, spent>>

\* The interval callback of startTimeTracking runs up to
\* `await updateTimeSpent(userId, problemId, elapsed)` (one callback is
\* suspended at a time).
IntervalFires ==
    /\ Alive
    /\ tracker.timer
    /\ ~tracker.saving
    /\ tracker.elapsed > 0
    /\ LET f == Flush("updateTimeSpent", tracker.userId, tracker.problemId,
                      tracker.elapsed, TRUE)
       IN  /\ spent' = UpdateTimeSpent(spent, db, remoteProgress, stats, f.userId,
                                       f.problemId, f.seconds)
           /\ lastOp' = [Op("interval") EXCEPT !.flush = f, !.tracked = tracker]
    /\ tracker' = [tracker EXCEPT !.saving = TRUE]
    /\ UNCHANGED <<authLoaded, currentUser, authStateListeners, session, storageOK,
                   now, handles, lastDelivered, authState, bodyClass, uiPhase, dom,
                   authGate, gateCount, protectedRedirect, location, modalShown, twin,
                   element, dbVars, cacheWrite, signVars>>

\* The suspended interval callback resumes: sessionStartTime = Date.now().
IntervalResumes ==
    /\ Alive
    /\ tracker.saving
    /\ tracker' = [tracker EXCEPT !.saving = FALSE, !.started = TRUE, !.elapsed = 0]
    /\ lastOp' = [Op("intervalDone") EXCEPT !.tracked = tracker]
    /\ UNCHANGED <<authLoaded, currentUser, authStateListeners, session, storageOK,
                   now, handles, lastDelivered, authState, bodyClass, uiPhase, dom,
                   authGate, gateCount, protectedRedirect, location, modalShown, twin,
                   element, dbVars, cacheWrite, signVars, spent>>

\* The tab is hidden: handleVisibilityChange runs with visibilityState
\* 'hidden'.
VisibilityHidden ==
    /\ Alive
    /\ tracker.listening
    /\ LET uid == CurrentUid(authLoaded, currentUser)
           f == VisibilityFlush(tracker, uid)
       IN  /\ spent' = UpdateTimeSpent(spent, db, remoteProgress, stats, f.userId,
                                       f.problemId, f.seconds)
           /\ tracker' = IF f # NoFlush THEN [tracker EXCEPT !.elapsed = 0]
                         ELSE tracker
           /\ lastOp' = [Op("hidden") EXCEPT
                            !.flush = f, !.tracked = tracker, !.user = uid]
    /\ UNCHANGED <<authLoaded, currentUser, authStateListeners, session, storageOK,
                   now, handles, lastDelivered, authState, bodyClass, uiPhase, dom,
                   authGate, gateCount, protectedRedirect, location, modalShown, twin,
                   element, dbVars, cacheWrite, signVars>>

\* The page is unloaded: saveTimeBeforeUnload runs and the document is gone.
BeforeUnload ==
    /\ Alive
    /\ tracker.listening
    /\ LET uid == CurrentUid(authLoaded, currentUser)
       IN  lastOp' = [Op("unload") EXCEPT
                         !.flush = UnloadFlush(tracker, uid), !.tracked = tracker,
                         !.user = uid]
    /\ location' = "unloaded"
    /\ UNCHANGED <<authLoaded, currentUser, authStateListeners, session, storageOK,
                   now, handles, lastDelivered, authState, bodyClass, uiPhase, dom,
                   authGate, gateCount, protectedRedirect, modalShown, twin,
                   element, dbVars, cacheWrite, signVars, trackVars>>

\* Page code calls MLInterviewAuth.getStoredUserSession().
GetStoredUserSessionCall ==
    /\ Alive
    /\ authLoaded
    /\ lastOp' = [Op("getStoredUserSession") EXCEPT
                     !.data = GetStoredUserSession(session, storageOK),
                     !.storage = storageOK]
    /\ UNCHANGED <<authLoaded, currentUser, authStateListeners, session, storageOK,
                   now, handles, lastDelivered, authState, bodyClass, uiPhase, dom,
                   authGate, gateCount, protectedRedirect, location, modalShown, twin,
                   element, dbVars, cacheWrite>>
    /\ UNCHANGED <<signVars, trackVars>>

\* localStorage becomes unavailable (quota, privacy mode) or available again.
StorageChanges ==
    /\ Alive
    /\ storageOK' = ~storageOK
    /\ lastOp' = Op("storage")
    /\ UNCHANGED <<element, dbVars>>
    /\ UNCHANGED <<authLoaded, currentUser, authStateListeners, session, now, handles,
                   lastDelivered, authState, bodyClass, uiPhase, dom, authGate,
                   gateCount, protectedRedirect, location, modalShown, twin>>
    /\ UNCHANGED cacheWrite
    /\ UNCHANGED <<signVars, trackVars>>

Next ==
    \/ LoadAuthModule
    \/ \E u \in Identities : HandleAuthStateChange(u)
    \/ \E cb \in SubscriberCallbacks : Subscribe(cb)
    \/ SubscribeNoFunction
    \/ \E h \in 1..Len(handles) : Unsubscribe(h)
    \/ InitializeAuthUI
    \/ WindowLoad
    \/ \E url \in {Null, "/login"} : Configure(url)
    \/ \E showModal \in BOOLEAN, redirectTo \in {Null, "/signin"} :
          RequireAuth(showModal, redirectTo)
    \/ HideLoginModal
    \/ \E c \in Containers : CreateContentGate(c)
    \/ \E c \in Containers : RemoveContentGateCall(c)
    \/ StorageChanges
    \/ GetStoredUserSessionCall
    \/ \E b \in Providers : StartSignIn(b)
    \/ \E b \in Providers, code \in ErrorCodes : SignInFails(b, code)
    \/ \E b \in Providers : SignInSucceeds(b)
    \/ \E u \in SyncUsers, p \in Problems : StartTimeTracking(u, p)
    \/ StopTimeTracking
    \/ Tick
    \/ IntervalFires
    \/ IntervalResumes
    \/ VisibilityHidden
    \/ BeforeUnload
    \/ AttachOnclick
    \/ AddClickListener
    \/ \E showModal \in BOOLEAN, redirectTo \in {Null, "/signin"} :
          ProtectContent(showModal, redirectTo)
    \/ Unprotect
    \/ Click
    \/ ShowLoginModal
    \/ LoadDatabase
    \/ InitializeFirestore
    \/ \E i \in 1..Len(chains) : ChainStep(i)
    \/ \E p \in Problems, st \in CatalogStatuses : UpdateProgress(p, st)
    \/ \E u \in Users, p \in Problems, st \in OtherDeviceStatuses : OtherDevice(u, p, st)

Spec == Init /\ [][Next]_vars

\* The broadcaster of auth.js alone: the provider's notifications, page
\* code subscribing and unsubscribing, and the session cache.
NextBroadcast ==
    \/ LoadAuthModule
    \/ \E u \in Identities : HandleAuthStateChange(u)
    \/ \E cb \in SubscriberCallbacks : Subscribe(cb)
    \/ SubscribeNoFunction
    \/ \E h \in 1..Len(handles) : Unsubscribe(h)
    \/ StorageChanges

SpecBroadcast == InitSame /\ [][NextBroadcast]_vars

\* The access check of auth-ui on top of the broadcaster and the cache.
NextAccess ==
    \/ LoadAuthModule
    \/ \E u \in Identities : HandleAuthStateChange(u)
    \/ InitializeAuthUI
    \/ WindowLoad
    \/ \E url \in {Null, "/login"} : Configure(url)
    \/ \E showModal \in BOOLEAN, redirectTo \in {Null, "/signin"} :
          RequireAuth(showModal, redirectTo)
    \/ HideLoginModal
    \/ StorageChanges
    \/ GetStoredUserSessionCall

SpecAccess == Init /\ [][NextAccess]_vars

\* The content gates of auth-ui on top of the broadcaster.
NextGate ==
    \/ LoadAuthModule
    \/ \E u \in Identities : HandleAuthStateChange(u)
    \/ \E cb \in SubscriberCallbacks : Subscribe(cb)
    \/ \E h \in 1..Len(handles) : Unsubscribe(h)
    \/ \E c \in Containers : CreateContentGate(c)
    \/ \E c \in Containers : RemoveContentGateCall(c)

SpecGate == InitSame /\ [][NextGate]_vars

\* The initial states of a page load with no cached session.
InitEmptyCache == InitSame /\ session = NoEntry

\* The initial state of a page without data-auth-required elements.
InitPlain == InitEmptyCache /\ ~element.authRequired

\* The options page code passes to protectContent and requireAuth.
ProtectOptions ==
    {[showModal |-> TRUE, redirectTo |-> Null],
     [showModal |-> FALSE, redirectTo |-> Null],
     [showModal |-> TRUE, redirectTo |-> "/signin"]}

\* Protected elements and the operations of auth-ui that must work without
\* the auth module.
NextProtect ==
    \/ LoadAuthModule
    \/ \E u \in SyncUsers \cup {Null} : HandleAuthStateChange(u)
    \/ AttachOnclick
    \/ AddClickListener
    \/ \E o \in ProtectOptions : ProtectContent(o.showModal, o.redirectTo)
    \/ Unprotect
    \/ Click
    \/ \E o \in ProtectOptions : RequireAuth(o.showModal, o.redirectTo)
    \/ ShowLoginModal
    \/ HideLoginModal
    \/ \E c \in Containers : CreateContentGate(c)

SpecProtect == InitPlain /\ [][NextProtect]_vars

\* The progress reconciliation: one account signing in and out on this
\* device, the user's status changes, and another device of the account.
NextSync ==
    \/ LoadAuthModule
    \/ LoadDatabase
    \/ InitializeFirestore
    \/ \E u \in SyncUsers \cup {Null} : HandleAuthStateChange(u)
    \/ \E i \in 1..Len(chains) : ChainStep(i)
    \/ \E p \in Problems, st \in CatalogStatuses : UpdateProgress(p, st)
    \/ \E u \in SyncUsers, p \in Problems, st \in OtherDeviceStatuses :
          OtherDevice(u, p, st)

SpecSync == InitPlain /\ [][NextSync]_vars

\* The login modal and the wrapped sign-in functions.
NextSignIn ==
    \/ LoadAuthModule
    \/ \E u \in SyncUsers \cup {Null} : HandleAuthStateChange(u)
    \/ ShowLoginModal
    \/ HideLoginModal
    \/ \E b \in Providers : StartSignIn(b)
    \/ \E b \in Providers, code \in ErrorCodes : SignInFails(b, code)
    \/ \E b \in Providers : SignInSucceeds(b)

SpecSignIn == InitPlain /\ [][NextSignIn]_vars

\* The sync chains with calls that fail, one chain at a time: a
\* notification arrives when no chain is in flight.
NextReconcile ==
    \/ LoadAuthModule
    \/ LoadDatabase
    \/ InitializeFirestore
    \/ \E u \in SyncUsers \cup {Null} : chains = <<>> /\ HandleAuthStateChange(u)
    \/ \E i \in 1..Len(chains), fault \in Faults : ChainStepFault(i, fault)
    \/ \E p \in Problems, st \in CatalogStatuses : UpdateProgress(p, st)
    \/ \E u \in SyncUsers, p \in Problems, st \in OtherDeviceStatuses :
          OtherDevice(u, p, st)

SpecReconcile == InitPlain /\ [][NextReconcile]_vars

\* The sync chains of one device when no call fails, one chain at a time.
NextPush ==
    \/ LoadAuthModule
    \/ LoadDatabase
    \/ InitializeFirestore
    \/ \E u \in SyncUsers \cup {Null} : chains = <<>> /\ HandleAuthStateChange(u)
    \/ \E i \in 1..Len(chains) : ChainStep(i)
    \/ \E p \in Problems, st \in CatalogStatuses : UpdateProgress(p, st)

\* database.js is loaded with the page, the 100 ms poll of
\* initializeDatabase goes on until initializeFirestore has run, and every
\* pending call of a chain resolves.  The provider's notifications and the
\* user's edits need not happen.
SpecPushFair ==
    /\ InitPlain
    /\ [][NextPush]_vars
    /\ WF_vars(LoadDatabase)
    /\ WF_vars(InitializeFirestore)
    /\ WF_vars(\E i \in 1..Len(chains) : ChainStep(i))

\* The time tracker with sign-in and sign-out, one chain at a time, and a
\* progress record written from another device, which updateTimeSpent
\* updates (the other problem has no record).
NextTrack ==
    \/ LoadAuthModule
    \/ LoadDatabase
    \/ InitializeFirestore
    \/ \E u \in SyncUsers \cup {Null} : chains = <<>> /\ HandleAuthStateChange(u)
    \/ \E i \in 1..Len(chains) : ChainStep(i)
    \/ \E u \in SyncUsers, p \in OtherDeviceProblems, st \in OtherDeviceStatuses :
          OtherDevice(u, p, st)
    \/ \E u \in SyncUsers, p \in Problems : StartTimeTracking(u, p)
    \/ StopTimeTracking
    \/ Tick
    \/ IntervalFires
    \/ IntervalResumes
    \/ VisibilityHidden
    \/ BeforeUnload

SpecTrack == InitPlain /\ [][NextTrack]_vars

\* ------------------------------------------------------------ properties

\* getCurrentUser()
GetCurrentUser == currentUser

\* The listener entries of a trace, in call order.
Called(trace) == [k \in 1..Len(trace) |-> [cb |-> trace[k].cb, sub |-> trace[k].sub]]

\* The listener entry e is registered in the listener array.
Registered(listeners, e) == \E i \in 1..Len(listeners) : listeners[i] = e

\* C1: every notification reaches every subscriber that is registered
\* before and after it exactly once, with the value passed.  (Holding for
\* each notification, this is the equality of the sequence a subscriber
\* receives with the sequence passed: notifications are handled one at a
\* time, so nothing dropped, duplicated or reordered.)
C1_EveryNotificationReachesEverySubscriber ==
    lastOp.op = "notify" =>
        \A i \in 1..Len(lastOp.before) :
            LET e == lastOp.before[i]
                calls == {k \in 1..Len(lastOp.trace) :
                             lastOp.trace[k].cb = e.cb /\ lastOp.trace[k].sub = e.sub}
            IN  Registered(authStateListeners, e) =>
                    /\ Cardinality(calls) = 1
                    /\ \A k \in calls : lastOp.trace[k].value = lastOp.user

C3_NoCallBeforeFirstNotification ==
    (lastOp.op = "subscribe" /\ Notified = 0) => lastOp.trace = <<>>

\* C4: a listener that raises during the fan-out changes nothing about the
\* delivery: the listeners called are the ones that would have been called
\* had no listener raised, and no exception leaves handleAuthStateChange.
C4_RaiseDoesNotStopDelivery ==
    lastOp.op = "notify" =>
        /\ ~lastOp.raised
        /\ Called(lastOp.trace) = lastOp.baseline

\* C4 witness: a fan-out in which a listener raised and the listener after
\* it was still called.
C4_Witness ==
    /\ lastOp.op = "notify"
    /\ \E k \in 1..Len(lastOp.trace) :
          /\ lastOp.trace[k].raisedIn
          /\ k < Len(lastOp.trace)
          /\ lastOp.trace[k + 1].cb.kind = "plain"

\* C5: the unsubscribe function deregisters its own subscription, and a
\* second call of it leaves the listener array unchanged.
C5_UnsubscribeOwnSubscriptionOnce ==
    lastOp.op = "unsubscribe" =>
        /\ ~Registered(authStateListeners, [cb |-> lastOp.cb, sub |-> lastOp.sub])
        /\ lastOp.again => authStateListeners = lastOp.before

\* C6: after handleAuthStateChange(v) with working storage, getCurrentUser()
\* is v, the cache holds the projection of v (no entry for null), and every
\* listener called in the fan-out already saw both.
C6_IdentityAndCacheBeforeFanOut ==
    (lastOp.op = "notify" /\ lastOp.storage) =>
        LET v == lastOp.user
        IN  /\ GetCurrentUser = v
            /\ IF Truthy(v)
               THEN /\ session.kind = "json"
                    /\ session.data.uid = v
                    /\ session.data.email = Email(v)
                    /\ session.data.displayName = DisplayName(v)
                    /\ session.data.photoURL = PhotoURL(v)
                    /\ session.data.emailVerified = EmailVerified(v)
                    /\ session.data.providerId =
                           (IF v = "u1" THEN "google.com" ELSE "unknown")
                    /\ session.data.lastLoginAt = now - 1
               ELSE session.kind = "none"
            /\ \A k \in 1..Len(lastOp.trace) :
                  /\ lastOp.trace[k].seenUser = v
                  /\ lastOp.trace[k].seenSession = session

\* C6 witness: a sign-in notification that replaced another account's cache
\* entry and was fanned out to a listener.
C6_Witness ==
    /\ lastOp.op = "notify"
    /\ lastOp.storage
    /\ lastOp.user = "u2"
    /\ Len(lastOp.trace) >= 1
    /\ lastOp.trace[1].seenSession.data.providerId = "unknown"

\* C7: requireAuth returns true exactly if getCurrentUser() is a present
\* identity at the call, and it does not raise; without the auth module
\* there is no identity and the result is false.
C7_RequireAuthIffIdentityPresent ==
    lastOp.op = "requireAuth" =>
        /\ lastOp.result <=> Truthy(GetCurrentUser)
        /\ ~authLoaded => ~lastOp.result
        /\ ~lastOp.raised

\* C7 witness: a requireAuth call that returned true.
C7_Witness == lastOp.op = "requireAuth" /\ lastOp.result /\ Truthy(GetCurrentUser)

\* C8: a requireAuth call made with the default options while nobody is
\* signed in navigates, and shows no prompt, if a redirect target is
\* configured (in the call or in AUTH_UI_CONFIG.urls.protectedRedirect);
\* otherwise it shows the prompt; it returns false either way.
C8_RedirectIfConfiguredElsePrompt ==
    (lastOp.op = "requireAuth" /\ authLoaded /\ lastOp.showModal
     /\ ~Truthy(GetCurrentUser)) =>
        /\ ~lastOp.result
        /\ IF lastOp.redirectTo # Null \/ protectedRedirect # Null
           THEN lastOp.navigated /\ ~lastOp.prompted
           ELSE lastOp.prompted /\ ~lastOp.navigated

\* C9: the result of requireAuth is the same in two runs that receive the
\* same inputs and differ only in the cached session entry.
C9_ResultIndependentOfCache == lastOp.op = "requireAuth" => lastOp.other = lastOp.result

\* C9 witness: a requireAuth call refused in a run whose cache is empty while
\* the other run's cache holds a stored session.
C9_Witness ==
    /\ lastOp.op = "requireAuth"
    /\ ~lastOp.result
    /\ authLoaded
    /\ session.kind = "none"
    /\ Truthy(GetStoredUserSession(twin.session, TRUE).uid)

\* C10: once a present identity has been delivered, every gate whose
\* closure was registered with the broadcaster has been removed: neither its
\* overlay nor its content wrapper is left in the container.
C10_GateRemovedBySignIn ==
    (lastOp.op = "notify" /\ Truthy(lastOp.user)) =>
        \A i \in 1..Len(lastOp.before) :
            LET cb == lastOp.before[i].cb
            IN  cb.kind = "gate" =>
                    /\ ~HasNode(dom[cb.on], "overlay", cb.id)
                    /\ ~HasNode(dom[cb.on], "wrapper", cb.id)

\* C11: the subscription createContentGate registers is one-shot: a gate
\* closure that is among the registered listeners belongs to a gate that has
\* not been removed (its overlay is still in the container), so removed
\* gates leave no listener behind.
C11_GateSubscriptionOneShot ==
    \A i \in 1..Len(authStateListeners) :
        LET cb == authStateListeners[i].cb
        IN  cb.kind = "gate" => HasNode(dom[cb.on], "overlay", cb.id)

\* C14: AuthUI reports initialized (isInitialized() true, isLoading() false)
\* only after the provider's first notification has reached
\* handleAuthStateChange.
C14_InitializedOnlyByProviderNotification ==
    (authState.initialized \/ ~authState.loading) => Notified >= 1

\* The onclick handler of the clicked element was installed by
\* protectContent.
ProtectedClick ==
    /\ lastOp.op = "click"
    /\ lastOp.onclick # <<>>
    /\ lastOp.onclick[1].kind = "protected"

\* Every requireAuth call of the click returned true.
ChecksPassed(cs) == \A k \in 1..Len(cs.checks) : cs.checks[k]

\* C12: a click on an element passed to protectContent calls requireAuth;
\* if a check fails the default action is prevented, propagation is stopped
\* and the replaced handler is not called; if the checks succeed nothing is
\* prevented and the handlers attached before the protection run: the
\* onclick function with the event of the click, and the click listener.
C12_ClickProceedsOnlyIfAllowed ==
    ProtectedClick =>
        LET cs == lastOp.click
            hadOriginal == \E k \in 1..Len(lastOp.onclick) :
                              lastOp.onclick[k].kind = "original"
        IN  /\ Len(cs.checks) >= 1
            /\ \A k \in 1..Len(cs.checks) :
                  cs.checks[k] = (authLoaded /\ Truthy(GetCurrentUser))
            /\ IF ChecksPassed(cs)
               THEN /\ ~cs.prevented
                    /\ ~cs.stopped
                    /\ hadOriginal => cs.original = ClickEvent
                    /\ element.listener => lastOp.listenerRan
               ELSE /\ cs.prevented
                    /\ cs.stopped
                    /\ cs.original = Null

\* C12 witness: a click on an element protected twice over its own onclick
\* function, by a signed-in user: both checks passed and the function ran.
C12_Witness ==
    /\ ProtectedClick
    /\ Len(lastOp.click.checks) = 2
    /\ ChecksPassed(lastOp.click)
    /\ lastOp.click.original = ClickEvent

\* C13: without window.MLInterviewAuth the operations of auth-ui return as
\* for an unauthenticated user (a call that raised would return nothing):
\* requireAuth returns false, a click on a protected element is blocked,
\* createContentGate builds the gate, showLoginModal returns and shows
\* nothing.
C13_MissingBroadcasterDegrades ==
    ~lastOp.loaded =>
        /\ lastOp.op = "requireAuth" => ~lastOp.result /\ ~lastOp.raised
        /\ ProtectedClick =>
              /\ ~ChecksPassed(lastOp.click)
              /\ lastOp.click.prevented
              /\ lastOp.click.stopped
              /\ lastOp.click.original = Null
        /\ (lastOp.op = "createContentGate" /\ lastOp.result) =>
              \E c \in Containers :
                 /\ authGate[c] = lastOp.sub
                 /\ HasNode(dom[c], "overlay", lastOp.sub)
                 /\ HasNode(dom[c], "wrapper", lastOp.sub)
        /\ lastOp.op = "showLoginModal" => ~modalShown /\ ~lastOp.raised

\* C13 witness: a click on a protected element, made while the auth module
\* is missing, that was blocked.
C13_Witness ==
    /\ ProtectedClick
    /\ ~lastOp.loaded
    /\ ~authLoaded
    /\ lastOp.click.prevented

\* C15: with the database ready, a notification starts a reconciliation
\* exactly if it changes the identity from absent to present.
C15_ReconciliationOnlyOnSignInTransition ==
    (lastOp.op = "notify" /\ dbLoaded /\ db) =>
        (lastOp.started = 1 <=> (lastOp.prev = Null /\ Truthy(lastOp.user)))

\* C16: no two chains of the same identity are in flight such that the
\* later one is in its push or pull.
C16_OneReconciliationPerIdentityInFlight ==
    \A i \in 1..Len(chains) : \A j \in 1..Len(chains) :
        (i < j /\ chains[i].uid = chains[j].uid) => chains[j].pc \notin {"push", "pull"}

Reconciled == lastOp.op = "reconciled" /\ lastOp.run.fresh /\ ~lastOp.run.disturbed

\* C18: a problem that was solved locally and absent or not started
\* remotely when the identity became present is solved in both ledgers
\* after the reconciliation.
C18_LocalSolvedIsPushed ==
    Reconciled =>
        \A p \in Problems :
            (/\ lastOp.run.startLocal[p] = "solved"
             /\ lastOp.run.startRemote[p] \in {None, "notstarted", "not-started"}) =>
                /\ remoteProgress[lastOp.run.uid][p] = "solved"
                /\ localProgress[p] = "solved"

\* C19: a problem that was solved remotely and not solved locally when the
\* identity became present is solved in both ledgers after the
\* reconciliation.
C19_RemoteSolvedNotDowngraded ==
    Reconciled =>
        \A p \in Problems :
            (/\ lastOp.run.startLocal[p] \notin {None, "solved"}
             /\ lastOp.run.startRemote[p] = "solved") =>
                /\ remoteProgress[lastOp.run.uid][p] = "solved"
                /\ localProgress[p] = "solved"

\* C20: this device reconciled lc_2 = working, another device then wrote
\* lc_2 = solved, and this device still holds working when the identity
\* becomes present again: after that reconciliation lc_2 is solved locally
\* and remotely.
C20_OtherDeviceSolvedArrives ==
    (/\ Reconciled
     /\ remoteEdits >= 1
     /\ lastOp.run.startSynced["lc_2"] = "working"
     /\ lastOp.run.startLocal["lc_2"] = "working"
     /\ lastOp.run.startRemote["lc_2"] = "solved") =>
        /\ localProgress["lc_2"] = "solved"
        /\ remoteProgress[lastOp.run.uid]["lc_2"] = "solved"

\* Two runs that absent-to-present transitions started for the same
\* identity are in their push or pull at the same time.
TwoSignInRunsOverlap ==
    \E i \in 1..Len(chains) : \E j \in 1..Len(chains) :
        /\ i < j
        /\ chains[i].uid = chains[j].uid
        /\ chains[i].fresh /\ chains[j].fresh
        /\ chains[i].pc \in {"push", "pull"}
        /\ chains[j].pc \in {"push", "pull"}

\* C26: a storeUserSession call whose setItem raised does not raise out of
\* handleAuthStateChange, and a getStoredUserSession call made after it
\* (with no later cache write in between) returns null.
C26_FailedWriteReadsAbsent ==
    /\ (lastOp.op = "notify" /\ ~lastOp.storage) => ~lastOp.raised
    /\ (lastOp.op = "getStoredUserSession" /\ cacheWrite = "storeFailed") =>
          lastOp.data = NoData

\* C27: getStoredUserSession does not raise.  It returns null when there is
\* no entry, when the entry is no JSON text and when localStorage raises;
\* otherwise the object the stored text serialises, which is the projection
\* of the last identity delivered if this page's last cache write stored it,
\* and null after a clear that succeeded.
C27_ReadReturnsLastWrittenOrAbsent ==
    lastOp.op = "getStoredUserSession" =>
        /\ ~lastOp.raised
        /\ (~lastOp.storage \/ session = NoEntry \/ session = CorruptEntry) =>
              lastOp.data = NoData
        /\ (lastOp.storage /\ session.kind = "json") =>
              JsonStringify(lastOp.data) = session
        /\ (lastOp.storage /\ cacheWrite = "stored") =>
              lastOp.data = SessionData(lastDelivered, now - 1)
        /\ (lastOp.storage /\ cacheWrite = "cleared") => lastOp.data = NoData

\* C27 witness: a read that returned the projection this page wrote for u2.
C27_Witness ==
    /\ lastOp.op = "getStoredUserSession"
    /\ cacheWrite = "stored"
    /\ lastOp.data.uid = "u2"
    /\ lastOp.data.providerId = "unknown"

\* C28: a sign-in attempt the provider rejects does not raise out of the
\* wrapped sign-in function; the error text of the login modal is the fixed
\* message of the code (the generic message for a code that is not in the
\* table or is missing); the failure does not close the modal, resets the
\* button and leaves the identity as it was.
C28_FailedSignInShowsMessage ==
    lastOp.op = "signInFailed" =>
        /\ ~lastOp.raised
        /\ lastOp.code = "auth/popup-closed-by-user" =>
              authError = "Sign-in was cancelled. Please try again."
        /\ lastOp.code = "auth/network-request-failed" =>
              authError = "Network error. Please check your connection."
        /\ lastOp.code \in {"auth/internal-error", Null} =>
              authError = "An error occurred during authentication."
        /\ modalShown = lastOp.modal
        /\ lastOp.button \notin loadingButtons
        /\ currentUser = lastOp.prev
        /\ lastDelivered = Null => ~Truthy(GetCurrentUser)

\* C28 witness: an attempt made from the open modal by a visitor who is not
\* signed in was rejected with a code the table does not hold; the modal is
\* open and shows the generic message.
C28_Witness ==
    /\ lastOp.op = "signInFailed"
    /\ lastOp.code = "auth/internal-error"
    /\ modalShown
    /\ authError = GenericMessage
    /\ ~Truthy(GetCurrentUser)
    /\ loadingButtons = {}


\* C29: while time tracking is active, a user is signed in and at least one
\* whole second has elapsed since sessionStartTime was last set, hiding the
\* tab calls updateTimeSpent and unloading the page calls
\* navigator.sendBeacon, each for the signed-in user, the tracked problem and
\* the elapsed seconds, and neither waits for the call to complete.
C29_HideAndUnloadIssueFlush ==
    (/\ lastOp.op \in {"hidden", "unload"}
     /\ lastOp.tracked.timer
     /\ Truthy(lastOp.user)
     /\ lastOp.tracked.elapsed >= 1)
    => lastOp.flush =
         Flush(IF lastOp.op = "unload" THEN "beacon" ELSE "updateTimeSpent",
               lastOp.user, lastOp.tracked.problemId, lastOp.tracked.elapsed,
               FALSE)

\* The tab is hidden two seconds into a session and the update reaches the
\* progress record.
C29_Witness ==
    /\ lastOp.op = "hidden"
    /\ lastOp.tracked.timer
    /\ lastOp.flush.via = "updateTimeSpent"
    /\ lastOp.flush.seconds >= 2
    /\ spent.records[lastOp.user][lastOp.flush.problemId] >= 2

\* C30: the number syncLocalStorageToFirestore returns is the number of
\* local records the call wrote to the remote ledger.
C30_CountIsRecordsWritten ==
    lastOp.op = "reconciled" =>
        SyncedCount(lastOp.run) = Cardinality(lastOp.run.written)

\* A reconciliation started by an absent-to-present transition has ended,
\* no call of it has failed, and neither the user nor another device has
\* changed a ledger meanwhile.
ReconciledCleanly == Reconciled /\ ~lastOp.run.faulted

\* C22: after a reconciliation in which nothing failed and no other change
\* intervened, every problem has the same record in the local and in the
\* remote ledger (the same status, or none in both).
C22_LedgersConverge ==
    ReconciledCleanly =>
        \A p \in Problems : localProgress[p] = remoteProgress[lastOp.run.uid][p]

\* Such a reconciliation has pushed a record the remote ledger lacked and
\* pulled one the local ledger lacked.
C22_Witness ==
    /\ ReconciledCleanly
    /\ \E p, q \in Problems :
          /\ lastOp.run.startLocal[p] # None /\ lastOp.run.startRemote[p] = None
          /\ lastOp.run.startLocal[q] = None /\ lastOp.run.startRemote[q] # None

\* C23: when the remote write of one record fails in the push, or the
\* localStorage write of one record fails in the pull, every other record
\* the push found is written to the remote ledger and every other remote
\* record is copied to the local ledger.
C23_FailureSkipsOneRecordOnly ==
    (/\ Reconciled
     /\ lastOp.run.faulted
     /\ lastOp.run.failedAt \in {"push", "pull"})
    => /\ \A p \in lastOp.run.snapshot \ {lastOp.run.failedKey} :
             p \in lastOp.run.written
       /\ \A p \in Problems \ {lastOp.run.failedKey} :
             remoteProgress[lastOp.run.uid][p] # None
                => localProgress[p] = remoteProgress[lastOp.run.uid][p]

\* C21: a reconciliation that runs right after a reconciliation of the same
\* identity, with no failure and no local or remote change in between or
\* meanwhile, leaves the local ledger, the remote progress records (status
\* and lastUpdatedAt) and the stats counters as they were at its start.
C21_SecondRunChangesNothing ==
    (ReconciledCleanly /\ lastOp.run.repeat)
    => /\ localProgress = lastOp.run.startLocal
       /\ remoteProgress[lastOp.run.uid] = lastOp.run.startRemote
       /\ updatedAt[lastOp.run.uid] = lastOp.run.startStamps
       /\ stats[lastOp.run.uid] = lastOp.run.startStats

\* C25: when a reconciliation has completed, with no failure and no write
\* by another device so far, the local ledger holds, for every problem whose
\* status the user changed while its push or its pull was in flight, the
\* last status the user picked.
C25_EditDuringSyncKept ==
    (/\ lastOp.op = "reconciled"
     /\ lastOp.run.fresh
     /\ ~lastOp.run.faulted
     /\ remoteEdits = 0)
    => \A p \in Problems :
          lastOp.run.edits[p] # None => localProgress[p] = lastOp.run.edits[p]

\* The identity u has just become present on a page that has database.js,
\* and the local ledger holds a record of problem p.
BecamePresentWith(u, p) ==
    /\ lastOp.op = "notify"
    /\ lastOp.user = u
    /\ ~Truthy(lastOp.prev)
    /\ dbLoaded
    /\ localProgress[p] # None

\* C24: whenever an identity becomes present, every record the local ledger
\* holds at that moment is eventually in that identity's remote ledger,
\* whether db was set before the notification or is set after it.
C24_LocalRecordsEventuallyPushed ==
    \A u \in SyncUsers, p \in Problems :
        [](BecamePresentWith(u, p) => <>(remoteProgress[u][p] # None))

\* C31: after the unprotect function of the element's one protectContent
\* call has been called, a click makes no requireAuth call and does what it
\* did before the protection: nothing is prevented or stopped and the
\* element's own onclick function, if it has one, runs with the event.
C31_UnprotectRestoresClick ==
    (/\ lastOp.op = "click"
     /\ ~element.protected
     /\ Len(SelectSeq(lastOp.onclick, LAMBDA h : h.kind = "protected")) = 1)
    => /\ lastOp.click.checks = <<>>
       /\ ~lastOp.click.prevented
       /\ ~lastOp.click.stopped
       /\ (\E k \in 1..Len(lastOp.onclick) : lastOp.onclick[k].kind = "original")
             => lastOp.click.original = ClickEvent

\* C32: when a subscriber is deregistered while a notification is fanned
\* out (the listener array is shorter after the handler than before it),
\* every subscriber that was registered before and still is receives the
\* notification exactly once.
C32_DeregistrationDuringFanOutSkipsNobody ==
    (lastOp.op = "notify" /\ Len(authStateListeners) < Len(lastOp.before)) =>
        \A i \in 1..Len(lastOp.before) :
            Registered(authStateListeners, lastOp.before[i]) =>
                Cardinality({k \in 1..Len(lastOp.trace) :
                                /\ lastOp.trace[k].phase = "fanout"
                                /\ lastOp.trace[k].cb = lastOp.before[i].cb
                                /\ lastOp.trace[k].sub = lastOp.before[i].sub}) = 1

\* C33: whenever document.body carries the authenticated class (which
\* updateUIForAuthState sets together with the visibility of the protected
\* elements), getCurrentUser returns an identity, so that requireAuth would
\* return true.
C33_AuthenticatedPresentationHasIdentity ==
    "auth-authenticated" \in bodyClass =>
        RequireAuthAllows(authLoaded, currentUser, session)

\* C34: after a present identity has been delivered to listeners that are
\* all gate closures, one for every gate created, no container holds a
\* sign-in overlay or a content wrapper of any gate.
C34_NoGateLeftAfterSignIn ==
    (/\ lastOp.op = "notify"
     /\ Truthy(lastOp.user)
     /\ Len(lastOp.before) = gateCount
     /\ \A i \in 1..Len(lastOp.before) : lastOp.before[i].cb.kind = "gate")
    => \A c \in Containers, k \in 1..MaxGates :
          /\ ~HasNode(dom[c], "overlay", k)
          /\ ~HasNode(dom[c], "wrapper", k)


\* Two accounts using one device in turn, an account signing in after the
\* previous one has signed out and its chain has ended.  The only source
\* of progress is another device of account u1, so every local record was
\* pulled from u1's remote ledger.
NextShared ==
    \/ LoadAuthModule
    \/ LoadDatabase
    \/ InitializeFirestore
    \/ \E u \in Identities :
          /\ chains = <<>>
          /\ Truthy(u) => ~Truthy(currentUser)
          /\ HandleAuthStateChange(u)
    \/ \E i \in 1..Len(chains) : ChainStep(i)
    \/ \E u \in SyncUsers, p \in Problems, st \in OtherDeviceStatuses :
          OtherDevice(u, p, st)

SpecShared == InitPlain /\ [][NextShared]_vars

\* C35: progress of account u1 never reaches the remote ledger of
\* account u2 signing in later on the same device.
C35_NoFlowBetweenAccounts ==
    \A p \in Problems : remoteProgress["u2"][p] = None


\* ------------------------------------- page calls of the database functions

\* The statuses updateProblemProgress documents for its status parameter;
\* recordProblemView stores the first of them.
DbStatuses == {"notstarted", "working", "help", "solved"}

\* One resumption of recordProblemView(uid, problemId) after an await:
\*   get           await progressRef.get()
\*   update        await progressRef.update({viewCount, lastViewedAt})
\*   set           await progressRef.set({status: 'notstarted', ...})
\*   statsAccessed await updateUserStats(userId, {problemsAccessed: 1})
RecordProblemViewStep(progress, st, uid, problemId, call) ==
    LET data == progress[uid][problemId]
    IN  CASE call = "get" ->
               [progress |-> progress, stats |-> st,
                call |-> IF data = None THEN "set" ELSE "update"]
          [] call = "update" ->
               [progress |-> progress, stats |-> st, call |-> "done"]
          [] call = "set" ->
               [progress |-> [progress EXCEPT ![uid][problemId] = "notstarted"],
                stats |-> st, call |-> "statsAccessed"]
          [] call = "statsAccessed" ->
               [progress |-> progress, stats |-> UpdateUserStats(st, uid, 0, 1),
                call |-> "done"]

\* A call of page code, suspended at its first await.
PageCall(fn, uid, problemId, status) ==
    [fn |-> fn, uid |-> uid, problemId |-> problemId, status |-> status,
     call |-> "get"]

\* The call writes lastUpdatedAt when it resumes from the given await.
StampsRecord(progress, c) ==
    \/ c.call = "set"
    \/ /\ c.fn = "updateProblemProgress"
       /\ c.call = "update"
       /\ progress[c.uid][c.problemId] # None

\* Page code calls updateProblemProgress(u, problemId, status): the function
\* returns false at once without db, and otherwise runs to
\* `await progressRef.get()`.
CallUpdateProblemProgress(u, problemId, status) ==
    /\ Alive
    /\ dbLoaded
    /\ db
    /\ issued < MaxCalls
    /\ Len(pageCalls) < MaxPending
    /\ pageCalls' = Append(pageCalls, PageCall("updateProblemProgress", u, problemId, status))
    /\ issued' = issued + 1
    /\ lastOp' = Op("updateProblemProgress")
    /\ UNCHANGED <<authLoaded, currentUser, authStateListeners, session, storageOK,
                   now, handles, lastDelivered, authState, bodyClass, uiPhase, dom,
                   authGate, gateCount, protectedRedirect, location, modalShown, twin,
                   element, dbLoaded, db, localProgress, remoteProgress, stats,
                   updatedAt, chains, synced, remoteEdits, localEdits, cacheWrite>>
    /\ UNCHANGED <<signVars, trackVars>>

\* Page code calls recordProblemView(u, problemId).
CallRecordProblemView(u, problemId) ==
    /\ Alive
    /\ dbLoaded
    /\ db
    /\ issued < MaxCalls
    /\ Len(pageCalls) < MaxPending
    /\ pageCalls' = Append(pageCalls, PageCall("recordProblemView", u, problemId, None))
    /\ issued' = issued + 1
    /\ lastOp' = Op("recordProblemView")
    /\ UNCHANGED <<authLoaded, currentUser, authStateListeners, session, storageOK,
                   now, handles, lastDelivered, authState, bodyClass, uiPhase, dom,
                   authGate, gateCount, protectedRedirect, location, modalShown, twin,
                   element, dbLoaded, db, localProgress, remoteProgress, stats,
                   updatedAt, chains, synced, remoteEdits, localEdits, cacheWrite>>
    /\ UNCHANGED <<signVars, trackVars>>

\* The pending Firestore call of page call i resolves and the function runs
\* on to its next await or to `return true`.
PageCallStep(i) ==
    /\ Alive
    /\ LET c == pageCalls[i]
           r == IF c.fn = "updateProblemProgress"
                THEN UpdateProblemProgressStep(remoteProgress, stats, c.uid,
                                               c.problemId, c.status, c.call)
                ELSE RecordProblemViewStep(remoteProgress, stats, c.uid,
                                           c.problemId, c.call)
       IN  /\ remoteProgress' = r.progress
           /\ stats' = r.stats
           /\ updatedAt' = IF StampsRecord(remoteProgress, c)
                           THEN [updatedAt EXCEPT ![c.uid][c.problemId] = now]
                           ELSE updatedAt
           /\ pageCalls' = IF r.call = "done"
                           THEN SubSeq(pageCalls, 1, i - 1)
                                    \o SubSeq(pageCalls, i + 1, Len(pageCalls))
                           ELSE [pageCalls EXCEPT ![i].call = r.call]
           /\ chains' = [j \in 1..Len(chains) |->
                            IF chains[j].uid = c.uid
                            THEN [chains[j] EXCEPT !.disturbed = chains[j].fresh]
                            ELSE chains[j]]
    /\ lastOp' = Op("pageCallStep")
    /\ UNCHANGED <<authLoaded, currentUser, authStateListeners, session, storageOK,
                   now, handles, lastDelivered, authState, bodyClass, uiPhase, dom,
                   authGate, gateCount, protectedRedirect, location, modalShown, twin,
                   element, dbLoaded, db, localProgress, synced, remoteEdits,
                   localEdits, issued, cacheWrite>>
    /\ UNCHANGED <<signVars, trackVars>>

\* The remote records of account u that have the given status.
RecordsWithStatus(u, status) == {p \in Problems : remoteProgress[u][p] = status}

\* No call that writes the remote ledger is suspended.
Quiet == pageCalls = <<>> /\ chains = <<>>

\* Page code calling the database functions one call at a time for the
\* signed-in account, once the sign-in chain has ended and the account's
\* user document exists.
NextLedger ==
    \/ LoadAuthModule
    \/ LoadDatabase
    \/ InitializeFirestore
    \/ \E u \in SyncUsers \cup {Null} : Quiet /\ HandleAuthStateChange(u)
    \/ \E i \in 1..Len(chains) : ChainStep(i)
    \/ \E u \in SyncUsers, p \in Problems, st \in DbStatuses :
          Quiet /\ currentUser = u /\ stats[u].exists
                /\ CallUpdateProblemProgress(u, p, st)
    \/ \E u \in SyncUsers, p \in Problems :
          Quiet /\ currentUser = u /\ stats[u].exists /\ CallRecordProblemView(u, p)
    \/ \E i \in 1..Len(pageCalls) : PageCallStep(i)

SpecLedger == InitPlain /\ [][NextLedger]_vars

\* C36: when no call is pending, stats.problemsSolved of the account is
\* the number of its progress records with status solved.
C36_SolvedCounterIsSolvedRecords ==
    \A u \in SyncUsers :
        (Quiet /\ stats[u].exists) =>
            stats[u].problemsSolved = Cardinality(RecordsWithStatus(u, "solved"))


\* Page code calling the database functions for the signed-in account
\* without waiting for the previous call to return.
NextRace ==
    \/ LoadAuthModule
    \/ LoadDatabase
    \/ InitializeFirestore
    \/ \E u \in SyncUsers \cup {Null} : Quiet /\ HandleAuthStateChange(u)
    \/ \E i \in 1..Len(chains) : ChainStep(i)
    \/ \E u \in SyncUsers, p \in Problems, st \in DbStatuses :
          chains = <<>> /\ currentUser = u /\ stats[u].exists
                        /\ CallUpdateProblemProgress(u, p, st)
    \/ \E u \in SyncUsers, p \in Problems :
          chains = <<>> /\ currentUser = u /\ stats[u].exists
                        /\ CallRecordProblemView(u, p)
    \/ \E i \in 1..Len(pageCalls) : PageCallStep(i)

SpecRace == InitPlain /\ [][NextRace]_vars

\* C37: when no call is pending, stats.problemsAccessed of the account is
\* the number of its progress records, also after calls for the same
\* record that overlapped.
C37_AccessedCounterIsRecords ==
    \A u \in SyncUsers :
        (Quiet /\ stats[u].exists) =>
            stats[u].problemsAccessed
                = Cardinality({p \in Problems : remoteProgress[u][p] # None})


RECURSIVE SumOfProblems(_, _)
\* The sum of a per-problem counter over a set of problems.
SumOfProblems(f, ps) ==
    IF ps = {} THEN 0
    ELSE LET p == CHOOSE q \in ps : TRUE
         IN  f[p] + SumOfProblems(f, ps \ {p})

\* The seconds added to timeSpent of the progress records of account u.
SecondsCredited(u) == SumOfProblems(spent.records[u], Problems)

\* C38: the seconds credited to the records of an account never exceed the
\* seconds that have passed while a problem was tracked, and every save is
\* for the problem that was tracked when it was made.
C38_SecondsCreditedOnce ==
    /\ \A u \in SyncUsers : SecondsCredited(u) <= tracker.passed
    /\ lastOp.flush # NoFlush => lastOp.flush.problemId = lastOp.tracked.problemId


\* The start of the auth UI on a page that is not left: auth.js may run
\* before initializeAuthUI, between it and the window's load event, after
\* the event, or never.
NextUi ==
    \/ LoadAuthModule
    \/ \E u \in Identities : HandleAuthStateChange(u)
    \/ InitializeAuthUI
    \/ WindowLoad
    \/ StorageChanges

\* initializeAuthUI runs at DOMContentLoaded or while the script is
\* executed, so the load event the browser fires once for the document
\* follows it and the listener it added then runs.  Nothing obliges auth.js
\* to load or the provider to notify.
SpecUiFair == Init /\ [][NextUi]_vars /\ WF_vars(WindowLoad)

\* C39: once initializeAuthUI has run, the body eventually no longer
\* carries the loading class.
C39_LoadingEventuallyRemoved ==
    [](uiPhase # "start" => <>("auth-loading" \notin bodyClass))

\* The load listener has run without the auth module and has removed the
\* loading class that initializeAuthUI added.
C39_Witness ==
    /\ lastOp.op = "windowLoad"
    /\ ~authLoaded
    /\ "auth-loading" \notin bodyClass


\* ------------------------------------------------ statistics (database.js)

\* The values of the options of the catalog's progress dropdown, which
\* LeetCodeRenderer.updateProgress stores in localStorage.
DropdownStatuses == {"not-started", "working", "need-help", "solved"}

\* getUserStats(userId): the counts of the progress records, by the
\* comparisons of progressSnapshot.forEach (all problems of the model are
\* of one category).
GetUserStats(records) ==
    [accessed |-> Cardinality({p \in Problems : records[p] # None}),
     solved   |-> Cardinality({p \in Problems : records[p] = "solved"}),
     working  |-> Cardinality({p \in Problems : records[p] = "working"}),
     needHelp |-> Cardinality({p \in Problems : records[p] = "help"})]

\* The statuses of the dropdown that the statistics have a bucket for, and
\* the field of getUserStats each is counted in.
BucketOf ==
    [status \in {"working", "need-help", "solved"} |->
        CASE status = "working" -> "working"
          [] status = "need-help" -> "needHelp"
          [] status = "solved" -> "solved"]

\* The catalog with every status of its dropdown, and the sign-in chains
\* one at a time.
NextCatalog ==
    \/ LoadAuthModule
    \/ LoadDatabase
    \/ InitializeFirestore
    \/ \E u \in SyncUsers \cup {Null} : chains = <<>> /\ HandleAuthStateChange(u)
    \/ \E i \in 1..Len(chains) : ChainStep(i)
    \/ \E p \in Problems, st \in DropdownStatuses : UpdateProgress(p, st)

SpecCatalog == InitPlain /\ [][NextCatalog]_vars

\* C40: after a reconciliation in which nothing failed and no other change
\* intervened, each bucket of getUserStats counts the problems the catalog
\* holds with the bucket's status; need-help problems are in needHelp.
C40_CatalogStatusesCounted ==
    ReconciledCleanly =>
        \A status \in DOMAIN BucketOf :
            GetUserStats(remoteProgress[lastOp.run.uid])[BucketOf[status]]
                = Cardinality({p \in Problems : localProgress[p] = status})

=============================================================================
